---------------------------- MODULE Spec2Model ----------------------------
(***************************************************************************)
(* Villain VST: the analog-emulation DSP engine (src/src/PluginProcessor   *)
(* .cpp) as a state machine.                                               *)
(*                                                                         *)
(* Numbers.  The code computes in 32-bit float.  Here a float is a         *)
(* fixed-point integer: the real value v is represented by round(v*Scale). *)
(* Products and quotients round to the nearest representable value,        *)
(* symmetric around zero, as float arithmetic does.  Frequencies (Hz) and  *)
(* sample rates are also carried in this representation.  exp, sin, cos,   *)
(* pow and sqrt of <cmath> are computed by series in the same arithmetic.  *)
(***************************************************************************)
EXTENDS Integers, Sequences, FiniteSets, TLC

\* Resolution of the number representation: 1/Scale = 0.00005.
Scale == 20 * 1000

\* A decimal literal n/d of the source (0.15f is Lit(15, 100)).
Lit(n, d) == (n \div d) * Scale + ((n % d) * Scale) \div d

Abs(a) == IF a < 0 THEN -a ELSE a
Sgn(a) == IF a < 0 THEN -1 ELSE 1

\* float * float.  The operands are split in an integer and a fractional
\* part so that no intermediate product leaves the 32-bit range.
MulParts(aH, aL, bH, bL) ==
    aH * bH * Scale + aH * bL + aL * bH + (aL * bL + Scale \div 2) \div Scale
MulAbs(aa, bb) == MulParts(aa \div Scale, aa % Scale, bb \div Scale, bb % Scale)
Mul(a, b) == Sgn(a) * Sgn(b) * MulAbs(Abs(a), Abs(b))

\* float / float (b # 0), by long division in two steps of 200 and 100
\* (200 * 100 = Scale).
DivStep2(bb, q, t1, r1) == q * Scale + t1 * 100 + (r1 * 100 + bb \div 2) \div bb
DivStep1(bb, q, r) == DivStep2(bb, q, (r * 200) \div bb, (r * 200) % bb)
DivAbs(aa, bb) == DivStep1(bb, aa \div bb, aa % bb)
Div(a, b) == Sgn(a) * Sgn(b) * DivAbs(Abs(a), Abs(b))

\* src/src/PluginProcessor.cpp:7-9
clampf(v, lo, hi) == IF v < lo THEN lo ELSE IF v > hi THEN hi ELSE v
clampi(v, lo, hi) == IF v < lo THEN lo ELSE IF v > hi THEN hi ELSE v
lerpf(a, b, t) == a + Mul(b - a, t)

One == Scale
TwoPi == Lit(628318, 100000)

(***************************************************************************)
(* <cmath>: exp, sin, cos, sqrt, pow(10, .) by series.                     *)
(***************************************************************************)
\* Number of series terms kept.
SeriesTerms == 14

RECURSIVE ExpSeries(_, _, _, _)
ExpSeries(x, k, term, acc) ==
    IF k > SeriesTerms \/ term = 0 THEN acc
    ELSE ExpSeries(x, k + 1, Mul(term, x) \div k, acc + Mul(term, x) \div k)

Square(v) == Mul(v, v)

\* exp(x) for x <= 0 by halving the argument until |x| <= 1/2 and squaring back;
\* for x > 0 as 1/exp(-x).
RECURSIVE ExpNeg(_)
ExpNeg(x) ==
    IF x < -(Scale \div 2)
    THEN Square(ExpNeg(x \div 2))
    ELSE ExpSeries(x, 1, One, One)

Exp(x) == IF x <= 0 THEN ExpNeg(x) ELSE Div(One, ExpNeg(-x))

\* The argument reduced to [-pi, pi].
WrapAngle(m) == IF m > TwoPi \div 2 THEN m - TwoPi ELSE m
ReduceAngle(x) == WrapAngle(x % TwoPi)

RECURSIVE TrigSeries(_, _, _, _)
TrigSeries(x2, k, term, acc) ==
    IF k > SeriesTerms \/ term = 0 THEN acc
    ELSE TrigSeries(x2, k + 2, -(Mul(term, x2) \div (k * (k + 1))),
                    acc - Mul(term, x2) \div (k * (k + 1)))

SinReduced(r) == TrigSeries(Mul(r, r), 2, r, r)
Sin(x) == SinReduced(ReduceAngle(x))
CosReduced(r) == TrigSeries(Mul(r, r), 1, One, One)
Cos(x) == CosReduced(ReduceAngle(x))

RECURSIVE SqrtIter(_, _, _)
SqrtIter(a, g, n) ==
    IF n = 0 \/ g = 0 THEN g
    ELSE SqrtIter(a, (g + Div(a, g)) \div 2, n - 1)

\* sqrt(a), a >= 0, by Newton's iteration from 1.
Sqrt(a) == IF a <= 0 THEN 0 ELSE SqrtIter(a, IF a > One THEN a ELSE One, 12)

\* pow(10, x) = exp(x * ln 10)
Pow10(x) == Exp(Mul(x, Lit(230259, 100000)))


\* 6.28318530718f * freq / sr.  The ratio freq / sr is carried to six decimal
\* places (long division in steps of 1000) so that the angle is exact to the
\* resolution of the representation; freq and sr are first brought to units
\* of 0.05 Hz to keep every intermediate in the 32-bit range.
OmegaDigits(sgn, i0, d1, d2) ==
    sgn * (TwoPi * i0 + (TwoPi * d1) \div 1000 + (TwoPi * d2 + 500000) \div 1000000)
OmegaStep2(sgn, s, i0, d1, r1) == OmegaDigits(sgn, i0, d1, (r1 * 1000) \div s)
OmegaStep1(sgn, s, i0, r0) == OmegaStep2(sgn, s, i0, (r0 * 1000) \div s, (r0 * 1000) % s)
OmegaRatio(sgn, f, s) == OmegaStep1(sgn, s, f \div s, f % s)
Omega(freq, sr) == OmegaRatio(Sgn(freq), Abs(freq) \div 1000, sr \div 1000)

(***************************************************************************)
(* Chebyshev polynomials and fastTanh                                      *)
(*                                                                         *)
(* A local of the source that is read more than once is an operator        *)
(* parameter here (the operator that computes it hands it to the operator  *)
(* that reads it), so a definition is the source's function split at its   *)
(* multiply-read locals.                                                   *)
(***************************************************************************)
cheb2(x) == Mul(2 * One, Mul(x, x)) - One
cheb3(x) == Mul(x, Mul(4 * One, Mul(x, x)) - 3 * One)
cheb4_x2(x2) == Mul(8 * One, Mul(x2, x2)) - Mul(8 * One, x2) + One
cheb4(x) == cheb4_x2(Mul(x, x))
cheb5_x2(x, x2) == Mul(x, Mul(16 * One, Mul(x2, x2)) - Mul(20 * One, x2) + 5 * One)
cheb5(x) == cheb5_x2(x, Mul(x, x))

\* fastTanh after the clamp of line 26.
fastTanh_x2(x, x2) == Div(Mul(x, 27 * One + x2), 27 * One + Mul(9 * One, x2))
fastTanh_clamped(x) == fastTanh_x2(x, Mul(x, x))
fastTanh(x) == fastTanh_clamped(clampf(x, -Lit(45, 10), Lit(45, 10)))

(***************************************************************************)
(* HarmonicShaper                                                          *)
(***************************************************************************)
HarmonicShaper_init ==
    [h2 |-> 0, h3 |-> 0, h4 |-> 0, h5 |-> 0, drive |-> One, asymmetry |-> 0]

\* Lines 57-60.
HarmonicShaper_harmonics(sh, clipped, level) ==
      Mul(Mul(sh.h2, cheb2(clipped)), level)
    + Mul(Mul(sh.h3, cheb3(clipped)), level)
    + Mul(Mul(Mul(sh.h4, cheb4(clipped)), level), Lit(7, 10))
    + Mul(Mul(Mul(sh.h5, cheb5(clipped)), level), Lit(5, 10))

\* Lines 65-69, with bias = asymmetry * 0.1f.
HarmonicShaper_biased(out, bias) == fastTanh(Mul(out + bias, Lit(11, 10))) - fastTanh(bias)

HarmonicShaper_asymmetry(sh, out) ==
    IF sh.asymmetry > 0
    THEN HarmonicShaper_biased(out, Mul(sh.asymmetry, Lit(1, 10)))
    ELSE out

\* Lines 50-62.
HarmonicShaper_clipped(sh, driven, clipped) ==
    fastTanh(driven) + HarmonicShaper_harmonics(sh, clipped, Abs(clipped))

HarmonicShaper_driven(sh, driven) ==
    HarmonicShaper_asymmetry(sh, HarmonicShaper_clipped(sh, driven, clampf(driven, -One, One)))

HarmonicShaper_process(sh, x) == HarmonicShaper_driven(sh, Mul(x, sh.drive))

(***************************************************************************)
(* One-pole filters (OnePoleLP and OnePoleHP share the state layout).      *)
(* A process operator returns the filter after the call (s) and the        *)
(* value returned (y).                                                     *)
(***************************************************************************)
OnePole_init == [z |-> 0, a |-> 0]

OnePole_setCutoff(f, hz, sr) ==
    [f EXCEPT !.a = Exp(-Omega(clampf(hz, 10 * One, Mul(sr, Lit(49, 100))), sr))]

OnePole_z(f, x) == Mul(f.a, f.z) + Mul(One - f.a, x)

OnePoleLP_process(f, x) == [s |-> [f EXCEPT !.z = OnePole_z(f, x)], y |-> OnePole_z(f, x)]

OnePoleHP_process(f, x) == [s |-> [f EXCEPT !.z = OnePole_z(f, x)], y |-> x - OnePole_z(f, x)]

OnePole_reset(f) == [f EXCEPT !.z = 0]

(***************************************************************************)
(* Biquad                                                                  *)
(***************************************************************************)
Biquad_init ==
    [b0 |-> One, b1 |-> 0, b2 |-> 0, a1 |-> 0, a2 |-> 0, z1 |-> 0, z2 |-> 0]

Biquad_reset(f) == [f EXCEPT !.z1 = 0, !.z2 = 0]

\* Line 131.
Biquad_y(f, x) ==
    Mul(f.b0, x) + Mul(f.b1, f.z1) + Mul(f.b2, f.z2) - Mul(f.a1, f.z1) - Mul(f.a2, f.z2)

\* A section that stores the new output and keeps the older one.
Biquad_shift_keep(f, y) == [s |-> [f EXCEPT !.z1 = y], y |-> y]

\* Lines 132-134.
Biquad_shift(f, y) == [s |-> [f EXCEPT !.z2 = f.z1, !.z1 = y], y |-> y]

Biquad_process(f, x) == Biquad_shift(f, Biquad_y(f, x))

\* Lines 144-149, with a0 = 1 + alpha.
Biquad_lowpassCoefs(f, cosw0, alpha, a0) ==
    [f EXCEPT !.b0 = Div(Div(One - cosw0, 2 * One), a0),
              !.b1 = Div(One - cosw0, a0),
              !.b2 = Div(Div(One - cosw0, 2 * One), a0),
              !.a1 = Div(Mul(-2 * One, cosw0), a0),
              !.a2 = Div(One - alpha, a0)]

Biquad_lowpassAlpha(f, cosw0, alpha) == Biquad_lowpassCoefs(f, cosw0, alpha, One + alpha)

Biquad_lowpassW0(f, w0, q) == Biquad_lowpassAlpha(f, Cos(w0), Div(Sin(w0), Mul(2 * One, q)))

Biquad_setLowpass(f, freq, q, sr) == Biquad_lowpassW0(f, Omega(freq, sr), q)

\* Lines 159-164.
Biquad_highpassCoefs(f, cosw0, alpha, a0) ==
    [f EXCEPT !.b0 = Div(Div(One + cosw0, 2 * One), a0),
              !.b1 = Div(-(One + cosw0), a0),
              !.b2 = Div(Div(One + cosw0, 2 * One), a0),
              !.a1 = Div(Mul(-2 * One, cosw0), a0),
              !.a2 = Div(One - alpha, a0)]

Biquad_highpassAlpha(f, cosw0, alpha) == Biquad_highpassCoefs(f, cosw0, alpha, One + alpha)

Biquad_highpassW0(f, w0, q) == Biquad_highpassAlpha(f, Cos(w0), Div(Sin(w0), Mul(2 * One, q)))

Biquad_setHighpass(f, freq, q, sr) == Biquad_highpassW0(f, Omega(freq, sr), q)

\* The shelf designs share lines 169-173 / 185-189: A, cos(w0) and
\* alpha = sin(w0) / 2 * sqrt(2); sA is 2 * sqrt(A) * alpha.
\* Lines 176-180, with a0 of line 175.
Biquad_lowShelfCoefs(f, A, cosw0, sA, a0) ==
    [f EXCEPT !.b0 = Div(Mul(A, (A + One) - Mul(A - One, cosw0) + sA), a0),
              !.b1 = Div(Mul(Mul(2 * One, A), (A - One) - Mul(A + One, cosw0)), a0),
              !.b2 = Div(Mul(A, (A + One) - Mul(A - One, cosw0) - sA), a0),
              !.a1 = Div(Mul(-2 * One, (A - One) + Mul(A + One, cosw0)), a0),
              !.a2 = Div((A + One) + Mul(A - One, cosw0) - sA, a0)]

Biquad_lowShelfA0(f, A, cosw0, sA) ==
    Biquad_lowShelfCoefs(f, A, cosw0, sA, (A + One) + Mul(A - One, cosw0) + sA)

\* Lines 192-196, with a0 of line 191.
Biquad_highShelfCoefs(f, A, cosw0, sA, a0) ==
    [f EXCEPT !.b0 = Div(Mul(A, (A + One) + Mul(A - One, cosw0) + sA), a0),
              !.b1 = Div(Mul(Mul(-2 * One, A), (A - One) + Mul(A + One, cosw0)), a0),
              !.b2 = Div(Mul(A, (A + One) + Mul(A - One, cosw0) - sA), a0),
              !.a1 = Div(Mul(2 * One, (A - One) - Mul(A + One, cosw0)), a0),
              !.a2 = Div((A + One) - Mul(A - One, cosw0) - sA, a0)]

Biquad_highShelfA0(f, A, cosw0, sA) ==
    Biquad_highShelfCoefs(f, A, cosw0, sA, (A + One) - Mul(A - One, cosw0) + sA)

Biquad_shelfAlpha(w0) == Mul(Div(Sin(w0), 2 * One), Sqrt(2 * One))

Biquad_lowShelfW0(f, A, w0) ==
    Biquad_lowShelfA0(f, A, Cos(w0), Mul(Mul(2 * One, Sqrt(A)), Biquad_shelfAlpha(w0)))

Biquad_highShelfW0(f, A, w0) ==
    Biquad_highShelfA0(f, A, Cos(w0), Mul(Mul(2 * One, Sqrt(A)), Biquad_shelfAlpha(w0)))

Biquad_setLowShelf(f, freq, gainDb, sr) ==
    Biquad_lowShelfW0(f, Pow10(Div(gainDb, 40 * One)), Omega(freq, sr))

Biquad_setHighShelf(f, freq, gainDb, sr) ==
    Biquad_highShelfW0(f, Pow10(Div(gainDb, 40 * One)), Omega(freq, sr))

(***************************************************************************)
(* DcBlocker                                                               *)
(***************************************************************************)
DcBlocker_init == [x1 |-> 0, y1 |-> 0, r |-> Lit(995, 1000)]

DcBlocker_setFreq(f, hz, sr) ==
    [f EXCEPT !.r = clampf(One - Omega(hz, sr), Lit(9, 10), Lit(999, 1000))]

DcBlocker_y(f, x) == x - f.x1 + Mul(f.r, f.y1)

DcBlocker_process(f, x) ==
    [s |-> [f EXCEPT !.x1 = x, !.y1 = DcBlocker_y(f, x)], y |-> DcBlocker_y(f, x)]

DcBlocker_reset(f) == [f EXCEPT !.x1 = 0, !.y1 = 0]

(***************************************************************************)
(* EnvelopeFollower                                                        *)
(***************************************************************************)
EnvelopeFollower_init == [env |-> 0, attackCoef |-> 0, releaseCoef |-> 0]

\* Setting the times also drops the level.
EnvelopeFollower_setTimes_reset(e, attackMs, releaseMs, sr) ==
    [e EXCEPT
       !.env = 0,
       !.attackCoef  = One - Exp(Div(-One, Mul(Mul(attackMs, Lit(1, 1000)), sr))),
       !.releaseCoef = One - Exp(Div(-One, Mul(Mul(releaseMs, Lit(1, 1000)), sr)))]

EnvelopeFollower_setTimes(e, attackMs, releaseMs, sr) ==
    [e EXCEPT
       !.attackCoef  = One - Exp(Div(-One, Mul(Mul(attackMs, Lit(1, 1000)), sr))),
       !.releaseCoef = One - Exp(Div(-One, Mul(Mul(releaseMs, Lit(1, 1000)), sr)))]

\* Lines 259-262, with abs_x = fabs(x).
EnvelopeFollower_env(e, abs_x) ==
    IF abs_x > e.env
    THEN e.env + Mul(e.attackCoef, abs_x - e.env)
    ELSE e.env + Mul(e.releaseCoef, abs_x - e.env)

\* The follower fed x itself instead of fabs(x).
EnvelopeFollower_process_signed(e, x) ==
    [s |-> [e EXCEPT !.env = EnvelopeFollower_env(e, x)],
     y |-> EnvelopeFollower_env(e, x)]

EnvelopeFollower_process(e, x) ==
    [s |-> [e EXCEPT !.env = EnvelopeFollower_env(e, Abs(x))],
     y |-> EnvelopeFollower_env(e, Abs(x))]

EnvelopeFollower_reset(e) == [e EXCEPT !.env = 0]

(***************************************************************************)
(* ThreeBandCrossover                                                      *)
(***************************************************************************)
ThreeBandCrossover_init ==
    [lp1 |-> Biquad_init, lp2 |-> Biquad_init,
     hp1 |-> Biquad_init, hp2 |-> Biquad_init,
     lowFreq |-> 200 * One, highFreq |-> 3000 * One]

ThreeBandCrossover_setup(c, lowF, highF, sr) ==
    [c EXCEPT !.lowFreq  = lowF,
              !.highFreq = highF,
              !.lp1 = Biquad_setLowpass(c.lp1, lowF, Lit(707, 1000), sr),
              !.lp2 = Biquad_setLowpass(c.lp2, lowF, Lit(707, 1000), sr),
              !.hp1 = Biquad_setHighpass(c.hp1, highF, Lit(707, 1000), sr),
              !.hp2 = Biquad_setHighpass(c.hp2, highF, Lit(707, 1000), sr)]

\* A mid band that is the input less the low band only.
ThreeBandCrossover_bands_lowOnly(c, x, l1, l2, h1, h2) ==
    [s    |-> [c EXCEPT !.lp1 = l1.s, !.lp2 = l2.s, !.hp1 = h1.s, !.hp2 = h2.s],
     low  |-> l2.y,
     high |-> h2.y,
     mid  |-> x - l2.y]

\* Lines 294-296, given the four sections' results l1, l2, h1, h2.
ThreeBandCrossover_bands(c, x, l1, l2, h1, h2) ==
    [s    |-> [c EXCEPT !.lp1 = l1.s, !.lp2 = l2.s, !.hp1 = h1.s, !.hp2 = h2.s],
     low  |-> l2.y,
     high |-> h2.y,
     mid  |-> x - l2.y - h2.y]

ThreeBandCrossover_second(c, x, l1, h1) ==
    ThreeBandCrossover_bands(c, x, l1, Biquad_process(c.lp2, l1.y),
                                   h1, Biquad_process(c.hp2, h1.y))

ThreeBandCrossover_process(c, x) ==
    ThreeBandCrossover_second(c, x, Biquad_process(c.lp1, x), Biquad_process(c.hp1, x))

ThreeBandCrossover_reset(c) ==
    [c EXCEPT !.lp1 = Biquad_reset(c.lp1), !.lp2 = Biquad_reset(c.lp2),
              !.hp1 = Biquad_reset(c.hp1), !.hp2 = Biquad_reset(c.hp2)]

(***************************************************************************)
(* ConsoleModelParams and the table kModelParams[MODEL_COUNT]              *)
(***************************************************************************)
MODEL_COUNT == 10

ConsoleModelParams(h2, h3, h4, h5, asym, bDrv, mDrv, hpF, lpF, lsF, lsG, hsF, hsG, lSat, mSat, hSat, xLo, xHi, atk, rel, comp) ==
    [h2 |-> h2, h3 |-> h3, h4 |-> h4, h5 |-> h5, asymmetry |-> asym,
     baseDrive |-> bDrv, maxDrive |-> mDrv,
     hpFreq |-> hpF, lpFreq |-> lpF,
     lowShelfFreq |-> lsF, lowShelfGain |-> lsG,
     highShelfFreq |-> hsF, highShelfGain |-> hsG,
     lowSatMult |-> lSat, midSatMult |-> mSat, highSatMult |-> hSat,
     crossLow |-> xLo, crossHigh |-> xHi,
     attackMs |-> atk, releaseMs |-> rel, compression |-> comp]

kModelParams ==
    <<
      \* MODEL_CONSOLE_73
      ConsoleModelParams(Lit(15, 100), Lit(35, 100), Lit(8, 100), Lit(12, 100), Lit(1, 10), 1 * One, Lit(35, 10),
          20 * One, 18000 * One, 100 * One, Lit(15, 10), 8000 * One, -Lit(5, 10),
          Lit(13, 10), 1 * One, Lit(8, 10), 180 * One, 3500 * One, 2 * One, 60 * One, Lit(15, 100)),
      \* MODEL_BRITISH_CLEAN
      ConsoleModelParams(Lit(5, 100), Lit(12, 100), Lit(3, 100), Lit(2, 100), 0 * One, 1 * One, Lit(22, 10),
          25 * One, 20000 * One, 80 * One, Lit(3, 10), 12000 * One, Lit(5, 10),
          Lit(8, 10), 1 * One, Lit(11, 10), 150 * One, 4000 * One, Lit(5, 10), 40 * One, Lit(8, 100)),
      \* MODEL_AMERICAN_PUNCH
      ConsoleModelParams(Lit(22, 100), Lit(28, 100), Lit(10, 100), Lit(8, 100), Lit(5, 100), 1 * One, 4 * One,
          30 * One, 16000 * One, 120 * One, 1 * One, 6000 * One, Lit(12, 10),
          1 * One, Lit(14, 10), Lit(9, 10), 200 * One, 3000 * One, 1 * One, 50 * One, Lit(12, 100)),
      \* MODEL_DESK_CREAM
      ConsoleModelParams(Lit(25, 100), Lit(20, 100), Lit(12, 100), Lit(6, 100), Lit(8, 100), 1 * One, Lit(32, 10),
          25 * One, 15000 * One, 150 * One, Lit(18, 10), 5000 * One, -Lit(8, 10),
          Lit(11, 10), Lit(13, 10), Lit(7, 10), 250 * One, 2800 * One, 3 * One, 80 * One, Lit(18, 100)),
      \* MODEL_CLASS_A_SILK
      ConsoleModelParams(Lit(12, 100), Lit(8, 100), Lit(4, 100), Lit(2, 100), Lit(2, 100), 1 * One, Lit(25, 10),
          18 * One, 22000 * One, 90 * One, Lit(6, 10), 10000 * One, 1 * One,
          Lit(9, 10), 1 * One, Lit(12, 10), 160 * One, 4500 * One, Lit(15, 10), 45 * One, Lit(6, 100)),
      \* MODEL_ABBEY_GLOW
      ConsoleModelParams(Lit(30, 100), Lit(18, 100), Lit(15, 100), Lit(10, 100), Lit(12, 100), 1 * One, 3 * One,
          40 * One, 12000 * One, 200 * One, 2 * One, 4000 * One, -Lit(15, 10),
          Lit(12, 10), Lit(11, 10), Lit(6, 10), 220 * One, 2500 * One, 4 * One, 100 * One, Lit(20, 100)),
      \* MODEL_VALVE_WARMTH
      ConsoleModelParams(Lit(40, 100), Lit(12, 100), Lit(8, 100), Lit(3, 100), Lit(15, 100), 1 * One, Lit(38, 10),
          22 * One, 14000 * One, 100 * One, Lit(12, 10), 6000 * One, -1 * One,
          Lit(11, 10), 1 * One, Lit(75, 100), 180 * One, 3200 * One, 5 * One, 120 * One, Lit(25, 100)),
      \* MODEL_TAPE_TOUCH
      ConsoleModelParams(Lit(20, 100), Lit(25, 100), Lit(12, 100), Lit(8, 100), Lit(6, 100), 1 * One, Lit(35, 10),
          28 * One, 14000 * One, 80 * One, Lit(25, 10), 8000 * One, -2 * One,
          1 * One, 1 * One, Lit(13, 10), 150 * One, 4000 * One, 1 * One, 70 * One, Lit(22, 100)),
      \* MODEL_GERMANIUM_ERA
      ConsoleModelParams(Lit(35, 100), Lit(30, 100), Lit(18, 100), Lit(15, 100), Lit(25, 100), 1 * One, 5 * One,
          50 * One, 10000 * One, 250 * One, 1 * One, 3500 * One, -Lit(25, 10),
          Lit(12, 10), Lit(14, 10), Lit(5, 10), 300 * One, 2200 * One, 2 * One, 90 * One, Lit(18, 100)),
      \* MODEL_TRANSFORMER_IRON
      ConsoleModelParams(Lit(18, 100), Lit(42, 100), Lit(14, 100), Lit(18, 100), Lit(8, 100), 1 * One, Lit(45, 10),
          25 * One, 16000 * One, 80 * One, Lit(22, 10), 5000 * One, -Lit(12, 10),
          Lit(15, 10), 1 * One, Lit(7, 10), 160 * One, 3000 * One, 3 * One, 75 * One, Lit(20, 100))
    >>

\* kModelParams[model]: the table is a sequence, index 0 of the code is element 1.
ModelParamsAt(model) == kModelParams[model + 1]

(***************************************************************************)
(* ChannelProcessor                                                        *)
(***************************************************************************)
\* A constructed ChannelProcessor (member initialisers, lines 464-485).
ChannelProcessor_init ==
    [inputHP    |-> OnePole_init,
     dcIn       |-> DcBlocker_init,
     crossover  |-> ThreeBandCrossover_init,
     lowShaper  |-> HarmonicShaper_init,
     midShaper  |-> HarmonicShaper_init,
     highShaper |-> HarmonicShaper_init,
     lowShelf   |-> Biquad_init,
     highShelf  |-> Biquad_init,
     outputLP   |-> OnePole_init,
     dcOut      |-> DcBlocker_init,
     envelope   |-> EnvelopeFollower_init,
     sr         |-> 44100 * One,
     currentModel |-> -1]

\* reset without envelope.reset().
ChannelProcessor_reset_partial(cp) ==
    [cp EXCEPT !.inputHP   = OnePole_reset(cp.inputHP),
               !.dcIn      = DcBlocker_reset(cp.dcIn),
               !.crossover = ThreeBandCrossover_reset(cp.crossover),
               !.lowShelf  = Biquad_reset(cp.lowShelf),
               !.highShelf = Biquad_reset(cp.highShelf),
               !.outputLP  = OnePole_reset(cp.outputLP),
               !.dcOut     = DcBlocker_reset(cp.dcOut)]

ChannelProcessor_reset(cp) ==
    [cp EXCEPT !.inputHP   = OnePole_reset(cp.inputHP),
               !.dcIn      = DcBlocker_reset(cp.dcIn),
               !.crossover = ThreeBandCrossover_reset(cp.crossover),
               !.lowShelf  = Biquad_reset(cp.lowShelf),
               !.highShelf = Biquad_reset(cp.highShelf),
               !.outputLP  = OnePole_reset(cp.outputLP),
               !.dcOut     = DcBlocker_reset(cp.dcOut),
               !.envelope  = EnvelopeFollower_reset(cp.envelope)]

\* prepare without the call of reset().
ChannelProcessor_prepare_noReset(cp, sampleRate) ==
    [cp EXCEPT !.sr = sampleRate,
               !.currentModel = -1,
               !.dcIn  = DcBlocker_setFreq(cp.dcIn, 8 * One, sampleRate),
               !.dcOut = DcBlocker_setFreq(cp.dcOut, 5 * One, sampleRate)]

ChannelProcessor_prepare(cp, sampleRate) ==
    ChannelProcessor_reset(
        [cp EXCEPT !.sr = sampleRate,
                   !.currentModel = -1,
                   !.dcIn  = DcBlocker_setFreq(cp.dcIn, 8 * One, sampleRate),
                   !.dcOut = DcBlocker_setFreq(cp.dcOut, 5 * One, sampleRate)])

\* The lambda configShaper of configureForModel.
configShaper(shaper, p, amount, drive, mult) ==
    [shaper EXCEPT !.h2 = Mul(p.h2, amount),
                   !.h3 = Mul(p.h3, amount),
                   !.h4 = Mul(p.h4, amount),
                   !.h5 = Mul(p.h5, amount),
                   !.drive = Mul(drive, mult),
                   !.asymmetry = Mul(p.asymmetry, amount)]

\* A model index outside the table clamped to the nearest entry.
configureModelIndex_clamp(model) == clampi(model, 0, MODEL_COUNT - 1)

\* Lines 512-513: a model index outside the table snaps to 0.
configureModelIndex(model) == IF model < 0 \/ model >= MODEL_COUNT THEN 0 ELSE model

\* Lines 517-554, with model the index after lines 512-513 and p its entry.
ChannelProcessor_configureWith(cp, model, p, amount) ==
    [cp EXCEPT
       !.inputHP    = OnePole_setCutoff(cp.inputHP, lerpf(10 * One, p.hpFreq, amount), cp.sr),
       !.crossover  = ThreeBandCrossover_setup(cp.crossover, p.crossLow, p.crossHigh, cp.sr),
       !.lowShaper  = configShaper(cp.lowShaper, p, amount,
                                   lerpf(p.baseDrive, p.maxDrive, amount), p.lowSatMult),
       !.midShaper  = configShaper(cp.midShaper, p, amount,
                                   lerpf(p.baseDrive, p.maxDrive, amount), p.midSatMult),
       !.highShaper = configShaper(cp.highShaper, p, amount,
                                   lerpf(p.baseDrive, p.maxDrive, amount), p.highSatMult),
       !.lowShelf   = Biquad_setLowShelf(cp.lowShelf, p.lowShelfFreq,
                                         Mul(p.lowShelfGain, amount), cp.sr),
       !.highShelf  = Biquad_setHighShelf(cp.highShelf, p.highShelfFreq,
                                          Mul(p.highShelfGain, amount), cp.sr),
       !.outputLP   = OnePole_setCutoff(cp.outputLP, lerpf(20000 * One, p.lpFreq, amount), cp.sr),
       !.envelope   = EnvelopeFollower_setTimes(cp.envelope, p.attackMs, p.releaseMs, cp.sr),
       !.currentModel = model]

ChannelProcessor_configureAt(cp, model, amount) ==
    ChannelProcessor_configureWith(cp, model, ModelParamsAt(model), amount)

ChannelProcessor_configureForModel(cp, model, amount) ==
    ChannelProcessor_configureAt(cp, configureModelIndex(model), amount)

(***************************************************************************)
(* ChannelProcessor::process, lines 565-606, statement by statement.  A     *)
(* stage takes and returns st: the processor (cp), the signal (x, the       *)
(* locals x and y of the source), the envelope value (env) and the bands.   *)
(* p is the table entry read at line 563.                                   *)
(***************************************************************************)
Stage_start(cp, x) == [cp |-> cp, x |-> x, env |-> 0, low |-> 0, mid |-> 0, high |-> 0]

\* The filter named field returned r: store its state, pass its output on.
Stage_put(st, field, r) == [st EXCEPT !.cp[field] = r.s, !.x = r.y]

Stage_dcIn(st) == Stage_put(st, "dcIn", DcBlocker_process(st.cp.dcIn, st.x))

Stage_inputHP(st) == Stage_put(st, "inputHP", OnePoleHP_process(st.cp.inputHP, st.x))

Stage_envelopePut(st, r) == [st EXCEPT !.cp.envelope = r.s, !.env = r.y]
Stage_envelope(st) == Stage_envelopePut(st, EnvelopeFollower_process(st.cp.envelope, st.x))

Stage_crossoverPut(st, r) ==
    [st EXCEPT !.cp.crossover = r.s, !.low = r.low, !.mid = r.mid, !.high = r.high]
Stage_crossover(st) == Stage_crossoverPut(st, ThreeBandCrossover_process(st.cp.crossover, st.x))

\* Lines 573-574.
Compression(p, amount) == Mul(p.compression, amount)
\* The gain computed from 2 * env without the clamp to [0, 1].
DynamicGain_unclamped(p, amount, env) ==
    One - Mul(Compression(p, amount), Mul(env, 2 * One))

DynamicGain(p, amount, env) ==
    One - Mul(Compression(p, amount), clampf(Mul(env, 2 * One), 0, One))

\* Lines 581-586.
LowDrive(p, amount, env) ==
    Mul(Mul(lerpf(p.baseDrive, p.maxDrive, amount), p.lowSatMult), DynamicGain(p, amount, env))
MidDrive(p, amount) == Mul(lerpf(p.baseDrive, p.maxDrive, amount), p.midSatMult)
HighDrive(p, amount) ==
    Mul(Mul(lerpf(p.baseDrive, p.maxDrive, amount), p.highSatMult),
        One + Mul(Compression(p, amount), Lit(3, 10)))

\* The shapers left with the drives configureForModel gave them.
Stage_drives_static(st, p, amount) == st

Stage_drives(st, p, amount) ==
    [st EXCEPT !.cp.lowShaper.drive  = LowDrive(p, amount, st.env),
               !.cp.midShaper.drive  = MidDrive(p, amount),
               !.cp.highShaper.drive = HighDrive(p, amount)]

\* Lines 588-593.
Stage_shape(st) ==
    [st EXCEPT !.x = HarmonicShaper_process(st.cp.lowShaper, st.low)
                   + HarmonicShaper_process(st.cp.midShaper, st.mid)
                   + HarmonicShaper_process(st.cp.highShaper, st.high)]

Stage_lowShelf(st) == Stage_put(st, "lowShelf", Biquad_process(st.cp.lowShelf, st.x))

Stage_highShelf(st) == Stage_put(st, "highShelf", Biquad_process(st.cp.highShelf, st.x))

Stage_outputLP(st) == Stage_put(st, "outputLP", OnePoleLP_process(st.cp.outputLP, st.x))

Stage_dcOut(st) == Stage_put(st, "dcOut", DcBlocker_process(st.cp.dcOut, st.x))

\* Line 604 and the return.
Stage_limit(st) == [s |-> st.cp, y |-> Div(fastTanh(Mul(st.x, Lit(9, 10))), Lit(9, 10))]

ChannelProcessor_pipeline(cp, x, p, amount) ==
    Stage_limit(
     Stage_dcOut(
      Stage_outputLP(
       Stage_highShelf(
        Stage_lowShelf(
         Stage_shape(
          Stage_drives(
           Stage_crossover(
            Stage_envelope(
             Stage_inputHP(
              Stage_dcIn(
               Stage_start(cp, x))))), p, amount)))))))

\* Lines 560-561.
\* Reconfiguring at every sample, whatever currentModel is.
ChannelProcessor_resync_always(cp, model, amount) ==
    ChannelProcessor_configureForModel(cp, model, amount)

ChannelProcessor_resync(cp, model, amount) ==
    IF model # cp.currentModel
    THEN ChannelProcessor_configureForModel(cp, model, amount)
    ELSE cp

\* ChannelProcessor::process for a model index inside the table.
ChannelProcessor_process(cp, x, model, amount) ==
    ChannelProcessor_pipeline(ChannelProcessor_resync(cp, model, amount),
                              x, ModelParamsAt(model), amount)

(***************************************************************************)
(* VillainAudioProcessor::AnalogEngine                                     *)
(*                                                                         *)
(* A buffer is a sequence of channels (1 or 2), each a sequence of         *)
(* samples of the same length.  The engine and the buffer it works on      *)
(* travel together as a record [e, buf].                                   *)
(***************************************************************************)
AnalogEngine_init ==
    [sr |-> 44100 * One, left |-> ChannelProcessor_init, right |-> ChannelProcessor_init]

\* Line 618.
AnalogEngine_rate(sampleRate) == IF sampleRate > 1000 * One THEN sampleRate ELSE 44100 * One

AnalogEngine_prepare(e, sampleRate) ==
    [sr    |-> AnalogEngine_rate(sampleRate),
     left  |-> ChannelProcessor_prepare(e.left, AnalogEngine_rate(sampleRate)),
     right |-> ChannelProcessor_prepare(e.right, AnalogEngine_rate(sampleRate))]

\* Blend with the dry and the wet gain exchanged.
Blend_swapped(dryMix, wetMix, in, wet) == Mul(wetMix, in) + Mul(dryMix, wet)

\* The dry/wet mix of lines 653 and 655.
Blend(dryMix, wetMix, in, wet) == Mul(dryMix, in) + Mul(wetMix, wet)

\* Lines 645-646 (index i from 1): ch1 is null for a mono buffer.
InL(buf, i) == buf[1][i]

\* A right input read from channel 0.
InR_left(buf, i) == buf[1][i]

\* A right input that is silence for a mono buffer.
InR_silent(buf, i) == IF Len(buf) > 1 THEN buf[2][i] ELSE 0

InR(buf, i) == IF Len(buf) > 1 THEN buf[2][i] ELSE buf[1][i]

\* Lines 653-655, given the two channel processors' results l and r.
AnalogEngine_write(eb, i, wetMix, l, r) ==
    [e   |-> [eb.e EXCEPT !.left = l.s, !.right = r.s],
     buf |-> IF Len(eb.buf) > 1
             THEN [eb.buf EXCEPT
                     ![1][i] = Blend(One - wetMix, wetMix, InL(eb.buf, i), l.y),
                     ![2][i] = Blend(One - wetMix, wetMix, InR(eb.buf, i), r.y)]
             ELSE [eb.buf EXCEPT
                     ![1][i] = Blend(One - wetMix, wetMix, InL(eb.buf, i), l.y)]]

\* One iteration of the sample loop, lines 645-655.
AnalogEngine_sample(eb, i, model, wetMix) ==
    AnalogEngine_write(eb, i, wetMix,
        ChannelProcessor_process(eb.e.left, InL(eb.buf, i), model, wetMix),
        ChannelProcessor_process(eb.e.right, InR(eb.buf, i), model, wetMix))

\* The loop of line 643 from index i on.
RECURSIVE AnalogEngine_loop(_, _, _, _)
AnalogEngine_loop(eb, i, model, wetMix) ==
    IF i > Len(eb.buf[1]) THEN eb
    ELSE AnalogEngine_loop(AnalogEngine_sample(eb, i, model, wetMix), i + 1, model, wetMix)

\* Only the left processor configured at the start of the block.
AnalogEngine_configure_leftOnly(e, model, wetMix) ==
    [e EXCEPT !.left = ChannelProcessor_configureForModel(e.left, model, wetMix)]

\* configureForModel calls that also clear the filter histories.
AnalogEngine_configure_reset(e, model, wetMix) ==
    [e EXCEPT !.left  = ChannelProcessor_configureForModel(ChannelProcessor_reset(e.left),
                                                           model, wetMix),
              !.right = ChannelProcessor_configureForModel(ChannelProcessor_reset(e.right),
                                                           model, wetMix)]

\* Processors configured at the start of the block only when the model changed.
AnalogEngine_configure_ifChanged(e, model, wetMix) ==
    [e EXCEPT !.left  = ChannelProcessor_resync(e.left, model, wetMix),
              !.right = ChannelProcessor_resync(e.right, model, wetMix)]

\* The two configureForModel calls of lines 640-641.
AnalogEngine_configure(e, model, wetMix) ==
    [e EXCEPT !.left  = ChannelProcessor_configureForModel(e.left, model, wetMix),
              !.right = ChannelProcessor_configureForModel(e.right, model, wetMix)]

\* The early exit of line 630.
Bypassed(wetMix) == wetMix < Lit(1, 10000)

\* process without the early exit of line 630.
AnalogEngine_processMix_noBypass(e, buf, model, wetMix) ==
    AnalogEngine_loop([e |-> AnalogEngine_configure(e, model, wetMix), buf |-> buf],
                      1, model, wetMix)

\* process with the early exit placed after the configureForModel calls.
AnalogEngine_processMix_lateExit(e, buf, model, wetMix) ==
    IF Bypassed(wetMix) THEN [e |-> AnalogEngine_configure(e, model, wetMix), buf |-> buf]
    ELSE AnalogEngine_loop([e |-> AnalogEngine_configure(e, model, wetMix), buf |-> buf],
                           1, model, wetMix)

\* Lines 630-656 with wetMix the clamped mix of line 627.
AnalogEngine_processMix(e, buf, model, wetMix) ==
    IF Bypassed(wetMix) THEN [e |-> e, buf |-> buf]
    ELSE AnalogEngine_loop([e |-> AnalogEngine_configure(e, model, wetMix), buf |-> buf],
                           1, model, wetMix)

AnalogEngine_process(e, buf, model, mix01) ==
    AnalogEngine_processMix(e, buf, model, clampf(mix01, 0, One))

(***************************************************************************)
(* VillainAudioProcessor: the parameters, the engine and processBlock      *)
(***************************************************************************)
kNumModels == 10

\* (int) f: conversion of a float to int truncates toward zero.
IntCast(v) == Sgn(v) * (Abs(v) \div Scale)

\* A model snapshot that wraps around instead of clamping.
LoadModel_wrap(raw) == IntCast(raw) % kNumModels

\* The model and mix snapshots of lines 746-747.
LoadModel(raw) == clampi(IntCast(raw), 0, kNumModels - 1)
LoadMix(raw) == clampf(raw, 0, One)

\* processBlock on the buffer buf.  The layouts isBusesLayoutSupported accepts
\* have as many outputs as inputs, so the loop of lines 743-744 clears nothing.
VillainAudioProcessor_processBlock(e, buf, rawModel, rawMix) ==
    AnalogEngine_process(e, buf, LoadModel(rawModel), LoadMix(rawMix))

\* Bounds of the model: the frames (one sample per channel) processed in a run,
\* and the times prepareToPlay is called.
MaxFrames == 2
MaxPrepares == 1

\* Raw values the host or the editor stores in the "model" and "mix" parameters.
\* The layout's ranges are 0..9 and [0, 1]; processBlock clamps both, so values
\* outside the ranges are included (model -1 is processed as model 0, model 10
\* as model 9).  Mix 1 is the smallest positive value of the
\* number representation, below the bypass threshold.
ModelValues == {-One, 10 * One}
MixValues == {-(One \div 2), 1, One \div 2, One + One \div 2}

\* Sample rates handed to prepareToPlay (0: a host that reports none).
SampleRates == {0, 8000 * One}

\* Input sample values: float samples are not confined to [-1, 1].
Samples == {-3 * One, One \div 2}

\* The right channel the host delivers with the left channel l.
RightOf(l) == [i \in 1..Len(l) |-> -(l[i] \div 2)]

\* The buffers of n channels and len frames.
Buffers(n, len) == {IF n = 1 THEN <<l>> ELSE <<l, RightOf(l)>> : l \in [1..len -> Samples]}

NoBuffer(n) == [c \in 1..n |-> <<>>]

(***************************************************************************)
(* The editor (PluginEditor.cpp) and the preset functions of the           *)
(* processor, both run on the message thread.                              *)
(***************************************************************************)

\* (int) std::round (v): the nearest integer, halves away from zero.
RoundToInt(v) == Sgn(v) * ((Abs(v) + Scale \div 2) \div Scale)

\* The model index without juce::jlimit.
Editor_model_unclamped(raw) == RoundToInt(raw)

\* The model index the editor derives from the raw parameter value:
\* timerCallback lines 448-449, syncFromParameter lines 243-244.
Editor_model(raw) == clampi(RoundToInt(raw), 0, kNumModels - 1)

\* No button of the grid toggled on.
NoneToggled == [i \in 0..(kNumModels - 1) |-> FALSE]

\* juce::Button::setToggleState on button i of the grid; the buttons share a
\* radio group (line 114), so turning one on turns the others off.
Button_setToggleState(t, i, on) ==
    IF on THEN [j \in 0..(kNumModels - 1) |-> j = i] ELSE [t EXCEPT ![i] = FALSE]

\* The loop of updateButtonStates from button i on.
RECURSIVE ModelGrid_updateFrom(_, _, _)
ModelGrid_updateFrom(t, sel, i) ==
    IF i >= kNumModels THEN t
    ELSE ModelGrid_updateFrom(Button_setToggleState(t, i, i = sel), sel, i + 1)

\* ModelGrid::updateButtonStates, lines 233-237.
ModelGrid_updateButtonStates(t, sel) == ModelGrid_updateFrom(t, sel, 0)

\* ModelGrid::syncFromParameter, lines 239-247, on the grid g (selected and
\* the toggle states).
ModelGrid_syncFromParameter(g, raw) ==
    [selected |-> Editor_model(raw),
     toggled  |-> ModelGrid_updateButtonStates(g.toggled, Editor_model(raw))]

\* ModelGrid::setModel, lines 220-231: the raw value the parameter takes.
ModelGrid_setModel(i) == clampi(i, 0, kNumModels - 1) * One

\* VillainAudioProcessor::setCurrentPresetName, lines 762-765.
setCurrentPresetName(name) == IF name # "" THEN name ELSE "Default"

\* A file handed to the preset functions: juce::File() or the preset file, with
\* its name without extension.
NoFile == [path |-> "", stem |-> ""]
PresetFile == [path |-> "/presets/Crunch.villainpreset", stem |-> "Crunch"]

\* A parameter state tree (the two parameter values), and the invalid tree.
StateOf(model, mix) == [valid |-> TRUE, model |-> model, mix |-> mix]
NoTree == [valid |-> FALSE, model |-> 0, mix |-> 0]

\* What the preset file holds: nothing (no such file), text that is not XML,
\* XML that ValueTree::fromXml makes no tree of, or a tree with its type, its
\* presetName property and, for a VILLAIN_STATE root, its first child; for
\* any other root, state is the root itself.
Missing == [kind |-> "missing", type |-> "", presetName |-> "", state |-> NoTree]
Garbage == [kind |-> "garbage", type |-> "", presetName |-> "", state |-> NoTree]
Treeless == [kind |-> "treeless", type |-> "", presetName |-> "", state |-> NoTree]
VillainTree(name, child) == [kind |-> "tree", type |-> "VILLAIN_STATE", presetName |-> name, state |-> child]
BareTree(root) == [kind |-> "tree", type |-> "Parameters", presetName |-> "", state |-> root]

\* makeStateForSave, lines 772-778.
makeStateForSave(state, presetName) == VillainTree(presetName, state)

\* savePresetToFile that names the preset before it writes the file.
savePresetToFile_nameFirst(name, state, file, presetName, xmlOk, writeOk, old) ==
    IF file = NoFile \/ file.path = ""
    THEN [ret |-> FALSE, errorOut |-> "Invalid file.", name |-> name, disk |-> old]
    ELSE IF ~xmlOk
    THEN [ret |-> FALSE, errorOut |-> "Failed to create XML.",
          name |-> setCurrentPresetName(presetName), disk |-> old]
    ELSE IF ~writeOk
    THEN [ret |-> FALSE, errorOut |-> "Failed to write preset file.",
          name |-> setCurrentPresetName(presetName), disk |-> old]
    ELSE [ret |-> TRUE, errorOut |-> "", name |-> setCurrentPresetName(presetName),
          disk |-> makeStateForSave(state, presetName)]

\* savePresetToFile, lines 812-838, with the current preset name, the
\* parameter state apvts.copyState() returns, the results of createXml
\* (xmlOk) and writeTo (writeOk) and what the file held (old): what it
\* returns, errorOut, the current preset name and the file afterwards.
savePresetToFile(name, state, file, presetName, xmlOk, writeOk, old) ==
    IF file = NoFile \/ file.path = ""
    THEN [ret |-> FALSE, errorOut |-> "Invalid file.", name |-> name, disk |-> old]
    ELSE IF ~xmlOk
    THEN [ret |-> FALSE, errorOut |-> "Failed to create XML.", name |-> name, disk |-> old]
    ELSE IF ~writeOk
    THEN [ret |-> FALSE, errorOut |-> "Failed to write preset file.", name |-> name, disk |-> old]
    ELSE [ret |-> TRUE, errorOut |-> "", name |-> setCurrentPresetName(presetName),
          disk |-> makeStateForSave(state, presetName)]

\* Lines 867-869: the presetName property, or the file's name when it is empty.
LoadedName(held, file) == IF held.presetName = "" THEN file.stem ELSE held.presetName

\* loadPresetFromFile, lines 840-887, with the current preset name, the
\* parameter state and what the file holds: what it returns, errorOut,
\* loadedPresetName, the current preset name and the parameter state afterwards.
loadPresetFromFile(name, state, file, held) ==
    IF file = NoFile \/ held.kind = "missing"
    THEN [ret |-> FALSE, errorOut |-> "Preset file not found.", loadedPresetName |-> "",
          name |-> name, state |-> state]
    ELSE IF held.kind = "garbage"
    THEN [ret |-> FALSE, errorOut |-> "Invalid preset file (XML parse failed).",
          loadedPresetName |-> "", name |-> name, state |-> state]
    ELSE IF held.kind = "treeless"
    THEN [ret |-> FALSE, errorOut |-> "Invalid preset file (no state).",
          loadedPresetName |-> "", name |-> name, state |-> state]
    ELSE IF held.type = "VILLAIN_STATE"
    THEN IF held.state.valid
         THEN [ret |-> TRUE, errorOut |-> "", loadedPresetName |-> LoadedName(held, file),
               name |-> setCurrentPresetName(LoadedName(held, file)), state |-> held.state]
         ELSE [ret |-> FALSE, errorOut |-> "Preset missing parameter state.",
               loadedPresetName |-> LoadedName(held, file),
               name |-> setCurrentPresetName(LoadedName(held, file)), state |-> state]
    ELSE [ret |-> TRUE, errorOut |-> "", loadedPresetName |-> file.stem,
          name |-> setCurrentPresetName(file.stem), state |-> held.state]

VARIABLES
    paramModel,   \* apvts raw value of "model" (a float)
    paramMix,     \* apvts raw value of "mix"
    numChannels,  \* the bus layout: 1 (mono) or 2 (stereo)
    engine,       \* the AnalogEngine
    inBuf,        \* the buffer as handed to the processBlock that ran last
    outBuf,       \* the buffer as that processBlock left it
    lastOp,       \* the operation that ran last
    frames,       \* frames processed so far
    prepares,     \* prepareToPlay calls so far
    \* Further engine instances, run next to the plugin's (SpecTwin):
    ref,          \* an instance constructed anew at each prepareToPlay
    refOut,       \* its last output block
    alt,          \* an instance fed blocks that differ in one channel
    altOut,       \* its last output block
    side,         \* the channel in which alt's input differs (1 or 2)
    \* The audio thread inside processBlock (SpecRT):
    pc,           \* where the audio thread is
    idx,          \* the loop index i of AnalogEngine::process, from 1
    rtModel,      \* the local model of processBlock
    rtMix,        \* the local mix of processBlock
    engine0,      \* the engine as it was when the block began
    raced,        \* a sample of the block was processed after a parameter changed
    \* A ChannelProcessor driven call by call (SpecChan, SpecTone):
    chan,         \* the channel processor
    call,         \* the call made last: its arguments, its result, the table reads
    envPeak,      \* the largest |x| handed to chan's envelope follower so far
    calls,        \* calls made so far
    \* The input stages of chan followed in the range of float (SpecPeak):
    wide,         \* their histories, the sample passed last and what they made of it
    \* The editor and the preset functions on the message thread (SpecEditor):
    currentModel,       \* VillainAudioProcessorEditor::currentModel
    selected,           \* ModelGrid::selected
    toggled,            \* the toggle state of ModelGrid::buttons[0..9]
    currentPresetName,  \* VillainAudioProcessor::currentPresetName
    disk,               \* what the preset file on disk holds
    uiCall,             \* the message-thread call made last: its arguments and results
    uiCalls             \* message-thread calls made so far

mainVars == <<paramModel, paramMix, numChannels, engine, inBuf, outBuf, lastOp, frames, prepares>>
twinVars == <<ref, refOut, alt, altOut, side>>
rtVars == <<pc, idx, rtModel, rtMix, engine0, raced>>
chanVars == <<chan, call, envPeak, calls, wide>>
uiVars == <<currentModel, selected, toggled, currentPresetName, disk, uiCall, uiCalls>>
vars == <<mainVars, twinVars, chanVars, rtVars, uiVars>>

\* The state after construction: parameter defaults of createParameterLayout
\* (model 0, mix 0.0), a constructed engine, one of the supported bus layouts.
InitMain ==
    /\ paramModel = 0
    /\ paramMix = 0
    /\ numChannels \in {1, 2}
    /\ engine = AnalogEngine_init
    /\ inBuf = NoBuffer(numChannels)
    /\ outBuf = NoBuffer(numChannels)
    /\ lastOp = "init"
    /\ frames = 0
    /\ prepares = 0

InitTwins ==
    /\ ref = AnalogEngine_init
    /\ refOut = NoBuffer(numChannels)
    /\ alt = AnalogEngine_init
    /\ altOut = NoBuffer(numChannels)

InitRT ==
    /\ pc = "idle"
    /\ idx = 0
    /\ rtModel = 0
    /\ rtMix = 0
    /\ engine0 = AnalogEngine_init
    /\ raced = FALSE

\* No call made yet on a constructed ChannelProcessor.
NoCall == [op |-> "new", x |-> 0, model |-> -1, amount |-> 0, y |-> 0, reads |-> {}]

\* The input stages at rest: the DC blocker's x1 and y1, the high-pass's z, no
\* sample passed (x) and none handed on (head).
AtRest == [x1 |-> 0, y1 |-> 0, z |-> 0, x |-> 0, head |-> 0]

InitChan ==
    /\ chan = ChannelProcessor_init
    /\ call = NoCall
    /\ envPeak = 0
    /\ calls = 0
    /\ wide = AtRest

\* No message-thread call made yet.
NoUiCall == [op |-> "none", ret |-> FALSE, errorOut |-> "", loadedPresetName |-> "",
             presetName |-> "", written |-> FALSE]

\* The editor after its constructor, which ends with timerCallback() (line 438)
\* on the parameter's default 0; currentPresetName as PluginProcessor.h:70
\* initialises it; no preset file yet.
InitUi ==
    /\ currentModel = 0
    /\ selected = 0
    /\ toggled = [i \in 0..(kNumModels - 1) |-> i = 0]
    /\ currentPresetName = "Default"
    /\ disk = Missing
    /\ uiCall = NoUiCall
    /\ uiCalls = 0

Init == InitMain /\ InitTwins /\ side = 1 /\ InitRT /\ InitChan /\ InitUi

\* The host or the editor writes the "model" parameter.
WriteModel(v) ==
    /\ paramModel' = v
    /\ lastOp' = "setModel"
    /\ inBuf' = NoBuffer(numChannels)
    /\ outBuf' = NoBuffer(numChannels)
    /\ UNCHANGED <<paramMix, numChannels, engine, frames, prepares>>

\* The host or the editor writes the "mix" parameter.
WriteMix(v) ==
    /\ paramMix' = v
    /\ lastOp' = "setMix"
    /\ inBuf' = NoBuffer(numChannels)
    /\ outBuf' = NoBuffer(numChannels)
    /\ UNCHANGED <<paramModel, numChannels, engine, frames, prepares>>

\* prepareToPlay, lines 722-726.
Prepare(sampleRate) ==
    /\ prepares < MaxPrepares
    /\ prepares' = prepares + 1
    /\ engine' = AnalogEngine_prepare(engine, sampleRate)
    /\ lastOp' = "prepare"
    /\ inBuf' = NoBuffer(numChannels)
    /\ outBuf' = NoBuffer(numChannels)
    /\ UNCHANGED <<paramModel, paramMix, numChannels, frames>>

\* processBlock as one step, lines 739-751.
Process(buf) ==
    /\ frames + Len(buf[1]) <= MaxFrames
    /\ frames' = frames + Len(buf[1])
    /\ \E r \in {VillainAudioProcessor_processBlock(engine, buf, paramModel, paramMix)} :
          /\ engine' = r.e
          /\ outBuf' = r.buf
    /\ inBuf' = buf
    /\ lastOp' = "block"
    /\ UNCHANGED <<paramModel, paramMix, numChannels, prepares>>

SetModel(v) == WriteModel(v) /\ UNCHANGED <<twinVars, uiVars, chanVars, rtVars>>

SetMix(v) == WriteMix(v) /\ UNCHANGED <<twinVars, uiVars, chanVars, rtVars>>

PrepareToPlay(sampleRate) == Prepare(sampleRate) /\ UNCHANGED <<twinVars, uiVars, chanVars, rtVars>>

ProcessBlock(buf) == Process(buf) /\ UNCHANGED <<twinVars, uiVars, chanVars, rtVars>>

Next ==
    \/ \E v \in ModelValues : SetModel(v)
    \/ \E v \in MixValues : SetMix(v)
    \/ \E sr \in SampleRates : PrepareToPlay(sr)
    \/ \E len \in 1..MaxFrames : \E buf \in Buffers(numChannels, len) : ProcessBlock(buf)

Spec == Init /\ [][Next]_vars

(***************************************************************************)
(* Properties of block processing                                          *)
(***************************************************************************)
\* The bypass threshold of the claims, 0.0001.
MixThreshold == Lit(1, 10000)

\* The last operation was a processBlock that was not bypassed.
WetBlock == lastOp = "block" /\ LoadMix(paramMix) >= MixThreshold

\* C1 (bypass identity): after a block whose mix clamps to a value below 0.0001,
\* every sample of every channel of the block equals its input value.
C1_BypassIdentity ==
    (lastOp = "block" /\ LoadMix(paramMix) < MixThreshold) => outBuf = inBuf

\* A bypassed block with a positive mix, on an engine that is configured.
C1_Witness ==
    /\ lastOp = "block"
    /\ paramMix = 1
    /\ engine.left.currentModel # -1
    /\ Len(inBuf[1]) > 0
    /\ outBuf = inBuf

\* The nearest in-range value of a raw model and of a raw mix.
NearestModel(raw) == IF raw < 0 THEN 0 ELSE IF raw > 9 * One THEN 9 * One ELSE raw
NearestMix(raw) == IF raw < 0 THEN 0 ELSE IF raw > One THEN One ELSE raw

\* C2 (clamping): a block processed with a model outside [0, 9] or a mix outside
\* [0, 1] leaves the output block and the engine that the nearest in-range model
\* and mix produce from the same engine and input.
C2_Clamping ==
    [][lastOp' = "block" =>
         [e |-> engine', buf |-> outBuf'] =
             VillainAudioProcessor_processBlock(engine, inBuf', NearestModel(paramModel),
                                                NearestMix(paramMix))]_vars

\* A block processed with model 10 and mix 1.5: it ran as model 9.
C2_Witness ==
    /\ lastOp = "block"
    /\ paramModel = 10 * One
    /\ paramMix = One + One \div 2
    /\ engine.left.currentModel = 9
    /\ outBuf # inBuf

\* The channel processor cp after configureForModel and the samples xs.
RECURSIVE ChannelRun(_, _, _, _)
ChannelRun(cp, xs, model, amount) ==
    IF xs = <<>> THEN cp
    ELSE ChannelRun(ChannelProcessor_process(cp, Head(xs), model, amount).s, Tail(xs),
                    model, amount)

\* The wet sample of channel processor cp for sample i of the channel xs.
WetAt(cp, xs, i, model, amount) ==
    ChannelProcessor_process(
        ChannelRun(ChannelProcessor_configureForModel(cp, model, amount),
                   SubSeq(xs, 1, i - 1), model, amount),
        xs[i], model, amount).y

\* The channel processor of channel c.
ChannelOf(e, c) == IF c = 1 THEN e.left ELSE e.right

\* C4 (blend): in a block that is not bypassed, sample i of every channel is
\* written as (1 - mix) * input[i] + mix * wet[i], with input[i] the value before
\* the call, wet[i] the channel processor's result for it and mix the clamped mix.
C4_Blend ==
    [][(lastOp' = "block" /\ LoadMix(paramMix) >= MixThreshold) =>
         \A c \in 1..numChannels : \A i \in 1..Len(inBuf'[c]) :
            outBuf'[c][i] =
                Mul(One - LoadMix(paramMix), inBuf'[c][i])
                + Mul(LoadMix(paramMix),
                      WetAt(ChannelOf(engine, c), inBuf'[c], i,
                            LoadModel(paramModel), LoadMix(paramMix)))]_vars

\* A stereo block of two frames blended at mix 0.5.
C4_Witness ==
    /\ WetBlock
    /\ paramMix = One \div 2
    /\ numChannels = 2
    /\ Len(inBuf[1]) = 2
    /\ outBuf[1] # inBuf[1]
    /\ outBuf[2] # inBuf[2]

\* The first k frames of a buffer, and the frames after them.
TakeFrames(buf, k) == [c \in DOMAIN buf |-> SubSeq(buf[c], 1, k)]
DropFrames(buf, k) == [c \in DOMAIN buf |-> SubSeq(buf[c], k + 1, Len(buf[c]))]

\* Two consecutive processBlock results as one: the last engine, the outputs joined.
SplitJoin(first, second) ==
    [e |-> second.e, buf |-> [c \in DOMAIN first.buf |-> first.buf[c] \o second.buf[c]]]

SplitSecond(first, rest, rawModel, rawMix) ==
    SplitJoin(first, VillainAudioProcessor_processBlock(first.e, rest, rawModel, rawMix))

\* buf processed as a block of its first k frames and a block of the rest.
SplitRun(e, buf, k, rawModel, rawMix) ==
    SplitSecond(VillainAudioProcessor_processBlock(e, TakeFrames(buf, k), rawModel, rawMix),
                DropFrames(buf, k), rawModel, rawMix)

\* C5 (histories persist across blocks): with a mix of at least 0.0001, a block
\* of N frames gives the output samples and the final engine state that the same
\* frames give as two consecutive blocks of k and N - k frames, for every 0 < k < N.
C5_BlockSplit ==
    [][(lastOp' = "block" /\ LoadMix(paramMix) >= MixThreshold) =>
         \A k \in 1..(Len(inBuf'[1]) - 1) :
            SplitRun(engine, inBuf', k, paramModel, paramMix)
                = [e |-> engine', buf |-> outBuf']]_vars

\* A block of at least two frames processed on an engine with filter history.
C5_Witness ==
    /\ WetBlock
    /\ Len(inBuf[1]) >= 2
    /\ outBuf # inBuf
    /\ engine.left.dcIn.x1 # 0
    /\ engine.left.envelope.env # 0

BiquadCleared(f) == f.z1 = 0 /\ f.z2 = 0

\* Every filter history and the envelope level of a channel processor are zero.
HistoriesCleared(cp) ==
    /\ cp.inputHP.z = 0
    /\ cp.dcIn.x1 = 0 /\ cp.dcIn.y1 = 0
    /\ cp.dcOut.x1 = 0 /\ cp.dcOut.y1 = 0
    /\ BiquadCleared(cp.crossover.lp1) /\ BiquadCleared(cp.crossover.lp2)
    /\ BiquadCleared(cp.crossover.hp1) /\ BiquadCleared(cp.crossover.hp2)
    /\ BiquadCleared(cp.lowShelf) /\ BiquadCleared(cp.highShelf)
    /\ cp.outputLP.z = 0
    /\ cp.envelope.env = 0

\* C6 (prepare): right after prepare, from any prior state, every filter history
\* and the envelope level of both channel processors are zero and currentModel
\* is -1.
C6_PrepareClears ==
    lastOp = "prepare" =>
        \A c \in 1..2 : /\ HistoriesCleared(ChannelOf(engine, c))
                        /\ ChannelOf(engine, c).currentModel = -1

\* prepare ran on an engine that had processed audio: the shapers still carry a
\* model's harmonic levels.
C6_Witness ==
    /\ lastOp = "prepare"
    /\ engine.left.lowShaper.h2 # 0
    /\ engine.left.lowShaper.drive # One
    /\ HistoriesCleared(engine.left)

\* Model indices handed to configureForModel, in and out of the table.
ConfigureModels == {-1, 4, 10}

\* configureForModel leaves currentModel at the model, or at 0 for a model
\* outside 0..9.
ConfigureSetsModel(cp) ==
    \A m \in ConfigureModels :
        ChannelProcessor_configureForModel(cp, m, One \div 2).currentModel
            = IF m \in 0..9 THEN m ELSE 0

C7_Step ==
    \A c \in 1..2 :
        /\ ChannelOf(engine', c).currentModel \in {-1} \cup 0..9
        /\ lastOp' = "prepare" => ChannelOf(engine', c).currentModel = -1
        /\ (ChannelOf(engine, c).currentModel # -1 /\ ChannelOf(engine', c).currentModel = -1)
              => lastOp' = "prepare"
        /\ engine' # engine => ConfigureSetsModel(ChannelOf(engine', c))

\* C7 (state machine): currentModel is -1 initially and right after prepare, is
\* always -1 or in 0..9, is set by configureForModel to the model (0 for a model
\* out of range), and only prepare returns it to -1.
C7_StateMachine ==
    /\ \A c \in 1..2 : /\ ChannelOf(engine, c).currentModel = -1
                       /\ ConfigureSetsModel(ChannelOf(engine, c))
    /\ [][C7_Step]_vars

\* prepare returned a processor configured for model 9 to Unconfigured.
C7_Witness ==
    /\ lastOp = "prepare"
    /\ engine.right.currentModel = -1
    /\ engine.right.currentModel # LoadModel(paramModel)
    /\ engine.right.midShaper.h3 = Mul(ModelParamsAt(9).h3, One)

\* C10 (mono): in a mono block that is not bypassed the right channel processor
\* is fed the left input samples, so it ends where configureForModel and the
\* left samples take it; the buffer keeps its single channel and its length, and
\* nothing but the two channel processors changes in the engine.
C10_Mono ==
    [][(lastOp' = "block" /\ numChannels = 1 /\ LoadMix(paramMix) >= MixThreshold) =>
         /\ engine'.right =
               ChannelRun(ChannelProcessor_configureForModel(
                              engine.right, LoadModel(paramModel), LoadMix(paramMix)),
                          inBuf'[1], LoadModel(paramModel), LoadMix(paramMix))
         /\ Len(outBuf') = 1
         /\ Len(outBuf'[1]) = Len(inBuf'[1])
         /\ engine'.sr = engine.sr]_vars

\* A mono block after which the right processor holds the left signal's history.
C10_Witness ==
    /\ WetBlock
    /\ numChannels = 1
    /\ Len(inBuf[1]) = 2
    /\ engine.right.dcIn.x1 = inBuf[1][2]
    /\ engine.right = engine.left

(***************************************************************************)
(* SpecRef: the plugin's engine next to a second instance, ref, that is    *)
(* constructed anew at every prepareToPlay and gets the same calls from    *)
(* there on.                                                               *)
(***************************************************************************)
RefSetModel(v) ==
    /\ WriteModel(v)
    /\ refOut' = NoBuffer(numChannels)
    /\ UNCHANGED <<ref, alt, altOut, side, uiVars, rtVars, chanVars>>

RefSetMix(v) ==
    /\ WriteMix(v)
    /\ refOut' = NoBuffer(numChannels)
    /\ UNCHANGED <<ref, alt, altOut, side, uiVars, rtVars, chanVars>>

RefPrepareToPlay(sampleRate) ==
    /\ Prepare(sampleRate)
    /\ ref' = AnalogEngine_prepare(AnalogEngine_init, sampleRate)
    /\ refOut' = NoBuffer(numChannels)
    /\ UNCHANGED <<alt, altOut, side, uiVars, rtVars, chanVars>>

RefProcessBlock(buf) ==
    /\ Process(buf)
    /\ \E r \in {VillainAudioProcessor_processBlock(ref, buf, paramModel, paramMix)} :
          /\ ref' = r.e
          /\ refOut' = r.buf
    /\ UNCHANGED <<alt, altOut, side, uiVars, rtVars, chanVars>>

NextRef ==
    \/ \E v \in ModelValues : RefSetModel(v)
    \/ \E v \in MixValues : RefSetMix(v)
    \/ \E sr \in SampleRates : RefPrepareToPlay(sr)
    \/ \E len \in 1..MaxFrames : \E buf \in Buffers(numChannels, len) : RefProcessBlock(buf)

SpecRef == Init /\ [][NextRef]_vars

(***************************************************************************)
(* SpecAlt: the plugin's engine on a stereo layout next to a second        *)
(* instance, alt, that gets the same calls with blocks whose channel       *)
(* `side` carries other samples.                                           *)
(***************************************************************************)
\* A sample that differs from x.
OtherSample(x) == One \div 4 - x

\* buf with other samples in channel c.
Perturb(buf, c) == [buf EXCEPT ![c] = [i \in 1..Len(buf[c]) |-> OtherSample(buf[c][i])]]

InitAlt ==
    /\ InitMain
    /\ numChannels = 2
    /\ InitTwins
    /\ side \in {1, 2}
    /\ InitRT
    /\ InitChan
    /\ InitUi

AltSetModel(v) ==
    /\ WriteModel(v)
    /\ altOut' = NoBuffer(numChannels)
    /\ UNCHANGED <<ref, refOut, alt, side, uiVars, rtVars, chanVars>>

AltSetMix(v) ==
    /\ WriteMix(v)
    /\ altOut' = NoBuffer(numChannels)
    /\ UNCHANGED <<ref, refOut, alt, side, uiVars, rtVars, chanVars>>

AltPrepareToPlay(sampleRate) ==
    /\ Prepare(sampleRate)
    /\ alt' = AnalogEngine_prepare(alt, sampleRate)
    /\ altOut' = NoBuffer(numChannels)
    /\ UNCHANGED <<ref, refOut, side, uiVars, rtVars, chanVars>>

AltProcessBlock(buf) ==
    /\ Process(buf)
    /\ \E r \in {VillainAudioProcessor_processBlock(alt, Perturb(buf, side),
                                                    paramModel, paramMix)} :
          /\ alt' = r.e
          /\ altOut' = r.buf
    /\ UNCHANGED <<ref, refOut, side, uiVars, rtVars, chanVars>>

NextAlt ==
    \/ \E v \in ModelValues : AltSetModel(v)
    \/ \E v \in MixValues : AltSetMix(v)
    \/ \E sr \in SampleRates : AltPrepareToPlay(sr)
    \/ \E len \in 1..MaxFrames : \E buf \in Buffers(numChannels, len) : AltProcessBlock(buf)

SpecAlt == InitAlt /\ [][NextAlt]_vars

\* C8 as stated (determinism): an instance that got the same prepare call and
\* then the same blocks as the plugin's engine has produced the same output block
\* and is in the same channel states.
C8_Original ==
    prepares > 0 =>
        /\ refOut = outBuf
        /\ ref.left = engine.left
        /\ ref.right = engine.right

\* Two channel processors agree in what prepare sets: the filter histories, the
\* envelope level, currentModel, the sample rate and the DC blockers' coefficient.
SamePrepared(a, b) ==
    /\ a.inputHP.z = b.inputHP.z
    /\ a.dcIn = b.dcIn
    /\ a.dcOut = b.dcOut
    /\ \A f \in {"lp1", "lp2", "hp1", "hp2"} :
          a.crossover[f].z1 = b.crossover[f].z1 /\ a.crossover[f].z2 = b.crossover[f].z2
    /\ a.lowShelf.z1 = b.lowShelf.z1 /\ a.lowShelf.z2 = b.lowShelf.z2
    /\ a.highShelf.z1 = b.highShelf.z1 /\ a.highShelf.z2 = b.highShelf.z2
    /\ a.outputLP.z = b.outputLP.z
    /\ a.envelope.env = b.envelope.env
    /\ a.currentModel = b.currentModel
    /\ a.sr = b.sr

\* C8 (determinism, amended): an instance that got the same prepare call and then
\* the same blocks as the plugin's engine has produced the same output block and
\* agrees with it in everything prepare sets; the channel states are the same in
\* full once a block has been processed without bypass since prepare.
C8_Determinism ==
    prepares > 0 =>
        /\ refOut = outBuf
        /\ ref.sr = engine.sr
        /\ \A c \in 1..2 :
              /\ SamePrepared(ChannelOf(ref, c), ChannelOf(engine, c))
              /\ ChannelOf(engine, c).currentModel # -1
                    => ChannelOf(ref, c) = ChannelOf(engine, c)

\* The plugin's engine had processed audio before prepareToPlay, the new instance
\* had not, and both have processed the same block since.
C8_Witness ==
    /\ prepares > 0
    /\ WetBlock
    /\ frames > Len(inBuf[1])
    /\ refOut = outBuf
    /\ outBuf # inBuf
    /\ ref = engine

\* C9 (channel independence): in stereo, a run whose right-channel input differs
\* has the same left output and the same left channel processor, and a run whose
\* left-channel input differs has the same right output and right processor.
C9_ChannelIndependence ==
    numChannels = 2 =>
        /\ side = 2 => (altOut[1] = outBuf[1] /\ alt.left = engine.left)
        /\ side = 1 => (altOut[2] = outBuf[2] /\ alt.right = engine.right)

\* A stereo block whose left input differed: the left outputs and processors
\* differ, the right ones do not.
C9_Witness ==
    /\ numChannels = 2
    /\ side = 1
    /\ WetBlock
    /\ altOut[1] # outBuf[1]
    /\ alt.left # engine.left
    /\ altOut[2] = outBuf[2]
    /\ outBuf[2] # inBuf[2]
    /\ alt.right = engine.right

(***************************************************************************)
(* SpecRT: processBlock statement by statement on the audio thread, while  *)
(* the message thread writes the parameters between any two of its steps.  *)
(***************************************************************************)
InitAudio == InitMain /\ InitTwins /\ side = 1 /\ InitRT /\ InitChan /\ InitUi

\* The message thread stores a parameter value (an atomic float).
RT_SetModel(v) ==
    /\ paramModel' = v
    /\ UNCHANGED <<paramMix, numChannels, engine, inBuf, outBuf, lastOp, frames, prepares,
                   twinVars, uiVars, chanVars, rtVars>>

RT_SetMix(v) ==
    /\ paramMix' = v
    /\ UNCHANGED <<paramModel, numChannels, engine, inBuf, outBuf, lastOp, frames, prepares,
                   twinVars, uiVars, chanVars, rtVars>>

\* The host calls processBlock with the buffer buf.
RT_Begin(buf) ==
    /\ pc = "idle"
    /\ frames + Len(buf[1]) <= MaxFrames
    /\ frames' = frames + Len(buf[1])
    /\ inBuf' = buf
    /\ outBuf' = buf
    /\ engine0' = engine
    /\ raced' = FALSE
    /\ pc' = "loadModel"
    /\ UNCHANGED <<paramModel, paramMix, numChannels, engine, lastOp, prepares,
                   twinVars, uiVars, chanVars, idx, rtModel, rtMix>>

\* Line 746.
RT_LoadModel ==
    /\ pc = "loadModel"
    /\ rtModel' = LoadModel(paramModel)
    /\ pc' = "loadMix"
    /\ UNCHANGED <<mainVars, twinVars, uiVars, chanVars, idx, rtMix, engine0, raced>>

\* Line 747.
RT_LoadMix ==
    /\ pc = "loadMix"
    /\ rtMix' = LoadMix(paramMix)
    /\ pc' = "enter"
    /\ UNCHANGED <<mainVars, twinVars, uiVars, chanVars, idx, rtModel, engine0, raced>>

\* The mix read again from the parameter instead of the local.
RT_wetMix_reread == clampf(LoadMix(paramMix), 0, One)

\* The local wetMix of AnalogEngine::process, line 627.
RT_wetMix == clampf(rtMix, 0, One)

\* AnalogEngine::process up to the loop, lines 625-641.
RT_Enter ==
    /\ pc = "enter"
    /\ IF Bypassed(RT_wetMix)
       THEN /\ pc' = "return"
            /\ UNCHANGED <<engine, idx>>
       ELSE /\ engine' = AnalogEngine_configure(engine, rtModel, RT_wetMix)
            /\ idx' = 1
            /\ pc' = "loop"
    /\ UNCHANGED <<paramModel, paramMix, numChannels, inBuf, outBuf, lastOp, frames, prepares,
                   twinVars, uiVars, chanVars, rtModel, rtMix, engine0, raced>>

\* One iteration of the loop, lines 643-656.
RT_Sample ==
    /\ pc = "loop"
    /\ idx <= Len(outBuf[1])
    /\ \E r \in {AnalogEngine_sample([e |-> engine, buf |-> outBuf], idx, rtModel, RT_wetMix)} :
          /\ engine' = r.e
          /\ outBuf' = r.buf
    /\ idx' = idx + 1
    /\ raced' = (raced \/ LoadModel(paramModel) # rtModel \/ LoadMix(paramMix) # rtMix)
    /\ UNCHANGED <<paramModel, paramMix, numChannels, inBuf, lastOp, frames, prepares,
                   twinVars, uiVars, chanVars, pc, rtModel, rtMix, engine0>>

\* The loop ends, line 643.
RT_LoopEnd ==
    /\ pc = "loop"
    /\ idx > Len(outBuf[1])
    /\ pc' = "return"
    /\ UNCHANGED <<mainVars, twinVars, uiVars, chanVars, idx, rtModel, rtMix, engine0, raced>>

\* processBlock returns.
RT_Return ==
    /\ pc = "return"
    /\ pc' = "idle"
    /\ UNCHANGED <<mainVars, twinVars, uiVars, chanVars, idx, rtModel, rtMix, engine0, raced>>

NextRT ==
    \/ \E v \in ModelValues : RT_SetModel(v)
    \/ \E v \in MixValues : RT_SetMix(v)
    \/ \E len \in 1..MaxFrames : \E buf \in Buffers(numChannels, len) : RT_Begin(buf)
    \/ RT_LoadModel
    \/ RT_LoadMix
    \/ RT_Enter
    \/ RT_Sample
    \/ RT_LoopEnd
    \/ RT_Return

SpecRT == InitAudio /\ [][NextRT]_vars

\* C3 (one read per block): when processBlock returns, the engine and the block
\* are what AnalogEngine::process makes of the engine and the block it began with
\* under the model and the mix read at lines 746-747, whatever the message thread
\* wrote to the parameters while the block was processed.
C3_SnapshotPerBlock ==
    pc = "return" =>
        [e |-> engine, buf |-> outBuf] = AnalogEngine_process(engine0, inBuf, rtModel, rtMix)

\* A block of two frames finished, with a sample processed after the parameters
\* had moved away from the values read for the block.
C3_Witness ==
    /\ pc = "return"
    /\ raced
    /\ Len(inBuf[1]) = 2
    /\ outBuf # inBuf
    /\ LoadModel(paramModel) # rtModel
    /\ LoadMix(paramMix) # rtMix

(***************************************************************************)
(* Properties of the sample loop (SpecRT)                                  *)
(***************************************************************************)
BiquadCoefs(f) == <<f.b0, f.b1, f.b2, f.a1, f.a2>>

\* Everything configureForModel and prepare derive for the filters, the EQ, the
\* crossover and the envelope follower of a channel processor.
Coefs(cp) ==
    [inputHP   |-> cp.inputHP.a,
     outputLP  |-> cp.outputLP.a,
     dcIn      |-> cp.dcIn.r,
     dcOut     |-> cp.dcOut.r,
     crossover |-> <<cp.crossover.lowFreq, cp.crossover.highFreq,
                     BiquadCoefs(cp.crossover.lp1), BiquadCoefs(cp.crossover.lp2),
                     BiquadCoefs(cp.crossover.hp1), BiquadCoefs(cp.crossover.hp2)>>,
     lowShelf  |-> BiquadCoefs(cp.lowShelf),
     highShelf |-> BiquadCoefs(cp.highShelf),
     envelope  |-> <<cp.envelope.attackCoef, cp.envelope.releaseCoef>>]

\* C11 (coefficients per block): in a block that is not bypassed the loop is
\* entered with both channel processors configured for the block's model, which
\* is in 0..9; at every sample of the block the guard of ChannelProcessor::process
\* finds currentModel equal to the model, so it configures nothing, and the sample
\* leaves every filter, EQ, crossover and envelope coefficient as it was.
C11_ConfigurePerBlock ==
    [][/\ (pc = "enter" /\ pc' = "loop") =>
             /\ rtModel \in 0..9
             /\ idx' = 1
             /\ \A c \in 1..2 : ChannelOf(engine', c).currentModel = rtModel
       /\ (pc = "loop" /\ idx' = idx + 1) =>
             \A c \in 1..2 :
                /\ ChannelOf(engine, c).currentModel = rtModel
                /\ ChannelProcessor_resync(ChannelOf(engine, c), rtModel, RT_wetMix)
                      = ChannelOf(engine, c)
                /\ ChannelOf(engine', c).currentModel = rtModel
                /\ Coefs(ChannelOf(engine', c)) = Coefs(ChannelOf(engine, c))]_vars

\* The first sample of a block has been processed under model 9 on an engine that
\* the block before had left configured for model 0.
C11_Witness ==
    /\ pc = "loop"
    /\ idx = 2
    /\ engine0.left.currentModel = 0
    /\ engine0.right.currentModel = 0
    /\ rtModel = 9
    /\ engine.left.currentModel = 9
    /\ engine.right.currentModel = 9
    /\ Coefs(engine.left) # Coefs(engine0.left)

(***************************************************************************)
(* A ChannelProcessor driven call by call: prepare, configureForModel and  *)
(* process with arguments of the caller's choice.                          *)
(***************************************************************************)
\* A ConsoleModelParams of zero-filled memory.
ZeroParams == ConsoleModelParams(0, 0, 0, 0, 0, 0, 0, 0, 0, 0, 0, 0, 0, 0, 0, 0, 0, 0, 0, 0, 0)

\* What kModelParams[model] yields at line 563.  An index outside the array reads
\* the memory next to it, which the source does not fix: zero-filled memory and
\* a copy of a table entry stand for what the build puts there.
StrayParams == {ZeroParams, ModelParamsAt(0)}
TableRead(model) ==
    IF model \in 0..(MODEL_COUNT - 1) THEN {ModelParamsAt(model)} ELSE StrayParams

\* The table indices read by configureForModel (line 515) and by process (line
\* 515 when the guard of line 560 fires, then line 563).
ConfigureReads(model) == {configureModelIndex(model)}
ProcessReads(cp, model) ==
    (IF model # cp.currentModel THEN ConfigureReads(model) ELSE {}) \cup {model}

\* The value handed to envelope.process at line 570 by process(x, ...) on cp.
EnvelopeInput(cp, x) == Stage_inputHP(Stage_dcIn(Stage_start(cp, x))).x

Max(a, b) == IF a > b THEN a ELSE b

\* The sample rates AnalogEngine::prepare hands to ChannelProcessor::prepare.
ChannelRates == {AnalogEngine_rate(sr) : sr \in SampleRates}

\* chan.prepare(sampleRate)
ChanPrepare(sampleRate) ==
    /\ chan' = ChannelProcessor_prepare(chan, sampleRate)
    /\ call' = [NoCall EXCEPT !.op = "prepare"]
    /\ calls' = calls + 1
    /\ UNCHANGED <<envPeak, wide, mainVars, twinVars, uiVars, rtVars>>

\* chan.configureForModel(model, amount)
ChanConfigure(model, amount) ==
    /\ chan' = ChannelProcessor_configureForModel(chan, model, amount)
    /\ call' = [op |-> "configure", x |-> 0, model |-> model, amount |-> amount,
                y |-> 0, reads |-> ConfigureReads(model)]
    /\ calls' = calls + 1
    /\ UNCHANGED <<envPeak, wide, mainVars, twinVars, uiVars, rtVars>>

\* y = chan.process(x, model, amount): cp is the processor after the guard of
\* lines 560-561 and p what line 563 read.
ChanProcess(x, model, amount) ==
    /\ \E cp \in {ChannelProcessor_resync(chan, model, amount)} :
          \E p \in TableRead(model) :
             \E r \in {ChannelProcessor_pipeline(cp, x, p, amount)} :
                /\ chan' = r.s
                /\ call' = [op |-> "process", x |-> x, model |-> model, amount |-> amount,
                            y |-> r.y, reads |-> ProcessReads(chan, model)]
                /\ envPeak' = Max(envPeak, Abs(EnvelopeInput(cp, x)))
    /\ calls' = calls + 1
    /\ UNCHANGED <<wide, mainVars, twinVars, uiVars, rtVars>>

(***************************************************************************)
(* SpecTone: a prepared channel processor fed a run of full-scale samples  *)
(* under one model and one amount.                                         *)
(***************************************************************************)
\* Calls made on the processor in a run.
MaxTone == 7

ToneModels == {2, 8}
ToneAmounts == {One}
ToneSamples == {-One, One}

TonePrepare(sampleRate) ==
    /\ calls = 0
    /\ ChanPrepare(sampleRate)

ToneProcess(x, model, amount) ==
    /\ calls < MaxTone
    /\ call.op = "process" => (model = call.model /\ amount = call.amount)
    /\ ChanProcess(x, model, amount)

NextTone ==
    \/ \E sr \in ChannelRates : TonePrepare(sr)
    \/ \E x \in ToneSamples : \E m \in ToneModels : \E a \in ToneAmounts : ToneProcess(x, m, a)

SpecTone == Init /\ [][NextTone]_vars

\* 1/0.9, the bound the soft limiter of line 604 is said to give.
SoftLimitBound == Div(One, Lit(9, 10))

\* C12 (bounded output): the sample returned by process for an input in [-1, 1],
\* a model in 0..9 and an amount in [0, 1] has a magnitude of at most 1/0.9,
\* whatever samples came before.
C12_Original ==
    (/\ call.op = "process"
     /\ Abs(call.x) <= One
     /\ call.model \in 0..9
     /\ call.amount >= 0 /\ call.amount <= One)
        => Abs(call.y) <= SoftLimitBound

(***************************************************************************)
(* SpecSilence: the plugin fed blocks of silence under every model and     *)
(* the mixes 0, 0.25, 0.5, 0.75 and 1.                                     *)
(***************************************************************************)
SilentModels == {m * One : m \in 0..(kNumModels - 1)}
SilentMixes == {0, One \div 4, One \div 2, (3 * One) \div 4, One}

\* The all-zero buffer of n channels and MaxFrames frames.
SilentBuffers(n) == {[c \in 1..n |-> [i \in 1..MaxFrames |-> 0]]}

NextSilence ==
    \/ \E v \in SilentModels : SetModel(v)
    \/ \E v \in SilentMixes : SetMix(v)
    \/ \E sr \in SampleRates : PrepareToPlay(sr)
    \/ \E buf \in SilentBuffers(numChannels) : ProcessBlock(buf)

SpecSilence == Init /\ [][NextSilence]_vars

AllZero(buf) == \A c \in DOMAIN buf : \A i \in DOMAIN buf[c] : buf[c][i] = 0

\* C13 (silence preservation): the first block after prepare, when all-zero, is
\* left all-zero, for every model in 0..9 and every mix in {0, 0.25, 0.5, 0.75, 1}.
C13_Original ==
    (/\ lastOp = "block"
     /\ prepares > 0
     /\ frames = Len(inBuf[1])
     /\ AllZero(inBuf)
     /\ paramModel \in SilentModels
     /\ paramMix \in SilentMixes)
        => AllZero(outBuf)

(***************************************************************************)
(* SpecChan: one ChannelProcessor driven directly by prepare,              *)
(* configureForModel and process, with model indices inside and outside    *)
(* the table.                                                              *)
(***************************************************************************)
\* Calls made on the processor in a run.
MaxCalls == 3

ChanModels == {-1, 2, 10}
ChanAmounts == {One \div 2, One}
ChanSamples == {-One, One \div 4}

CallPrepare(sampleRate) ==
    /\ calls < MaxCalls
    /\ ChanPrepare(sampleRate)

CallConfigure(model, amount) ==
    /\ calls < MaxCalls
    /\ ChanConfigure(model, amount)

CallProcess(x, model, amount) ==
    /\ calls < MaxCalls
    /\ ChanProcess(x, model, amount)

NextChan ==
    \/ \E sr \in ChannelRates : CallPrepare(sr)
    \/ \E m \in ChanModels : \E a \in ChanAmounts : CallConfigure(m, a)
    \/ \E x \in ChanSamples : \E m \in ChanModels : \E a \in ChanAmounts : CallProcess(x, m, a)

\* The plugin around the processor stays idle; its layout plays no part.
InitSolo == Init /\ numChannels = 1

SpecChan == InitSolo /\ [][NextChan]_vars

\* The cutoff OnePoleLP/OnePoleHP::setCutoff derives its coefficient from
\* (lines 85 and 105).
OnePole_cutoff(hz, sr) == clampf(hz, 10 * One, Mul(sr, Lit(49, 100)))

\* The corner frequencies from which configureForModel derives coefficients at
\* sample rate sr: the two one-poles after their clamp (lines 518, 549), the
\* crossover's biquads (line 521) and the shelves (lines 544, 545).
ConfiguredCorners(p, amount, sr) ==
    {OnePole_cutoff(lerpf(10 * One, p.hpFreq, amount), sr),
     OnePole_cutoff(lerpf(20000 * One, p.lpFreq, amount), sr),
     p.crossLow, p.crossHigh, p.lowShelfFreq, p.highShelfFreq}

\* The corner frequencies of the DC blockers set by prepare (lines 492, 493).
PreparedCorners == {8 * One, 5 * One}

ValidCorner(hz, sr) == hz <= Mul(sr, Lit(49, 100))

\* C15: every corner frequency from which a filter's coefficients are derived
\* (one-poles, DC blockers, crossover biquads, shelving biquads) is at most
\* 0.49 * sr.
C15_Original ==
    /\ call.op = "prepare" => \A hz \in PreparedCorners : ValidCorner(hz, chan.sr)
    /\ call.op = "configure" =>
          \A hz \in ConfiguredCorners(ModelParamsAt(chan.currentModel), call.amount, chan.sr)
                       \cup {chan.crossover.lowFreq, chan.crossover.highFreq} :
             ValidCorner(hz, chan.sr)

\* C16: the envelope level of the channel processor is never negative and never
\* above the largest |x| handed to EnvelopeFollower::process so far.
C16_EnvelopeBounds ==
    /\ chan.envelope.env >= 0
    /\ chan.envelope.env <= envPeak

\* The follower has risen towards a peak and stays below it.
C16_Witness ==
    /\ call.op = "process"
    /\ calls = MaxCalls
    /\ chan.envelope.attackCoef > 0
    /\ chan.envelope.env > 0
    /\ chan.envelope.env < envPeak

\* C18: every read of the ten-entry model table made by configureForModel or
\* process uses an index in 0..9, whatever integer model was passed.
C18_Original == call.reads \subseteq 0..(MODEL_COUNT - 1)

\* The processor and the sample that process(x, model, amount) leaves when
\* configureForModel(model, amount) runs ahead of the first filter stage.
ConfiguredFirst(cp, x, model, amount) ==
    ChannelProcessor_pipeline(ChannelProcessor_configureForModel(cp, model, amount),
                              x, ModelParamsAt(model), amount)

Histories(cp) ==
    [inputHP  |-> cp.inputHP.z,
     dcIn     |-> <<cp.dcIn.x1, cp.dcIn.y1>>,
     lp1      |-> <<cp.crossover.lp1.z1, cp.crossover.lp1.z2>>,
     lp2      |-> <<cp.crossover.lp2.z1, cp.crossover.lp2.z2>>,
     hp1      |-> <<cp.crossover.hp1.z1, cp.crossover.hp1.z2>>,
     hp2      |-> <<cp.crossover.hp2.z1, cp.crossover.hp2.z2>>,
     lowShelf |-> <<cp.lowShelf.z1, cp.lowShelf.z2>>,
     highShelf |-> <<cp.highShelf.z1, cp.highShelf.z2>>,
     outputLP |-> cp.outputLP.z,
     dcOut    |-> <<cp.dcOut.x1, cp.dcOut.y1>>,
     env      |-> cp.envelope.env]

\* C20: configureForModel leaves every filter history and the envelope level as
\* they were (and the sample rate and the DC blockers' coefficient, which only
\* prepare sets); a step that clears histories that were not clear is a prepare.
C20_ConfigureKeepsHistories ==
    [][/\ (calls' = calls + 1 /\ call'.op = "configure") =>
             /\ Histories(chan') = Histories(chan)
             /\ chan'.sr = chan.sr
             /\ chan'.dcIn.r = chan.dcIn.r
             /\ chan'.dcOut.r = chan.dcOut.r
             /\ chan'.currentModel = configureModelIndex(call'.model)
       /\ (~HistoriesCleared(chan) /\ HistoriesCleared(chan')) => call'.op = "prepare"]_vars

\* configureForModel(2, amount) called on a processor whose filters and
\* follower hold non-zero values.
C20_Witness ==
    /\ call.op = "configure"
    /\ call.model = 2
    /\ chan.currentModel = 2
    /\ chan.envelope.env > 0
    /\ chan.inputHP.z # 0
    /\ chan.crossover.hp1.z1 # 0
    /\ chan.highShelf.z2 # 0
    /\ chan.dcOut.y1 # 0

(***************************************************************************)
(* The range of float.  SpecPeak counts samples in units of 2^104, the     *)
(* spacing of the floats from 2^127 up to the largest finite one, which is *)
(* FloatTop units; sums and differences of such samples are exact while    *)
(* they stay in range, products with a coefficient are rounded to the      *)
(* unit.  A result beyond the range is an infinity; the difference of two  *)
(* equal infinities and 0 times an infinity are NaN.                       *)
(***************************************************************************)
FloatTop == 2^24 - 1
PosInf == FloatTop + 1
NegInf == -PosInf
NaN == 2 * PosInf

IsFinite(v) == v >= -FloatTop /\ v <= FloatTop

Fl_round(v) == IF v > FloatTop THEN PosInf ELSE IF v < -FloatTop THEN NegInf ELSE v

Fl_neg(a) == IF a = NaN THEN NaN ELSE -a

Fl_add(a, b) ==
    IF a = NaN \/ b = NaN THEN NaN
    ELSE IF ~IsFinite(a) THEN (IF b = -a THEN NaN ELSE a)
    ELSE IF ~IsFinite(b) THEN b
    ELSE Fl_round(a + b)

Fl_sub(a, b) == Fl_add(a, Fl_neg(b))

\* c * a for a coefficient c, counted in units of 1 / Scale.
Fl_scale(c, a) ==
    IF a = NaN THEN NaN
    ELSE IF ~IsFinite(a) THEN (IF c = 0 THEN NaN ELSE Sgn(c) * a)
    ELSE Fl_round(Mul(c, a))

\* DcBlocker::process (lines 230-236): x - x1 first, then + r * y1.
DcBlocker_yFl(f, x) == Fl_add(Fl_sub(x, f.x1), Fl_scale(f.r, f.y1))

DcBlocker_processFl(f, x) ==
    [s |-> [f EXCEPT !.x1 = x, !.y1 = DcBlocker_yFl(f, x)], y |-> DcBlocker_yFl(f, x)]

\* OnePoleHP::process (lines 109-113).
OnePole_zFl(f, x) == Fl_add(Fl_scale(f.a, f.z), Fl_scale(One - f.a, x))

OnePoleHP_processFl(f, x) ==
    [s |-> [f EXCEPT !.z = OnePole_zFl(f, x)], y |-> Fl_sub(x, OnePole_zFl(f, x))]

\* Lines 570-606 on the value head that line 567 left in x.  A NaN goes through
\* to the sample returned: the follower, the biquads, the one-pole and the DC
\* blocker are sums of products of their input, and clampf (line 7), with it
\* fastTanh and HarmonicShaper::process, returns its argument when neither
\* comparison holds.  The stages are not followed for other values.
ReturnsNaN(head) == head = NaN

(***************************************************************************)
(* SpecPeak: a channel processor fed samples at the ends of the range of   *)
(* float.  chan holds the coefficients, wide the histories of the DC       *)
(* blocker and the input high-pass.                                        *)
(***************************************************************************)
\* Calls made on the processor in a run.
MaxPeak == 4

PeakModels == {0, 9}
PeakAmounts == {One}
PeakSamples == {-FloatTop, 0, FloatTop}

PeakPrepare(sampleRate) ==
    /\ calls < MaxPeak
    /\ chan' = ChannelProcessor_prepare(chan, sampleRate)
    /\ wide' = AtRest
    /\ calls' = calls + 1
    /\ UNCHANGED <<call, envPeak, mainVars, twinVars, uiVars, rtVars>>

\* Lines 560-567 of process(x, model, amount): cp is the processor after the
\* guard, d the DC blocker's step and h the high-pass's.
PeakProcess(x, model, amount) ==
    /\ calls < MaxPeak
    /\ \E cp \in {ChannelProcessor_resync(chan, model, amount)} :
          \E d \in {DcBlocker_processFl([cp.dcIn EXCEPT !.x1 = wide.x1, !.y1 = wide.y1], x)} :
             \E h \in {OnePoleHP_processFl([cp.inputHP EXCEPT !.z = wide.z], d.y)} :
                /\ chan' = cp
                /\ wide' = [x1 |-> d.s.x1, y1 |-> d.s.y1, z |-> h.s.z, x |-> x, head |-> h.y]
    /\ calls' = calls + 1
    /\ UNCHANGED <<call, envPeak, mainVars, twinVars, uiVars, rtVars>>

NextPeak ==
    \/ \E sr \in ChannelRates : PeakPrepare(sr)
    \/ \E x \in PeakSamples : \E m \in PeakModels : \E a \in PeakAmounts : PeakProcess(x, m, a)

SpecPeak == InitSolo /\ [][NextPeak]_vars

\* C14 (finite input yields finite output): a call of process with a finite
\* sample never returns NaN, whatever samples came before.
C14_Original == IsFinite(wide.x) => ~ReturnsNaN(wide.head)

\* The harmonic weights and the asymmetry of a shaper.
ShaperWeights(sh) == <<sh.h2, sh.h3, sh.h4, sh.h5, sh.asymmetry>>

\* What configureForModel derives from the amount: the shapers' weights, the
\* shelves and the corners of the input high-pass and the output low-pass.
Intensity(cp) ==
    [lowShaper  |-> ShaperWeights(cp.lowShaper),
     midShaper  |-> ShaperWeights(cp.midShaper),
     highShaper |-> ShaperWeights(cp.highShaper),
     lowShelf   |-> BiquadCoefs(cp.lowShelf),
     highShelf  |-> BiquadCoefs(cp.highShelf),
     inputHP    |-> cp.inputHP.a,
     outputLP   |-> cp.outputLP.a]

\* A processor constructed anew at sample rate sr and configured once.
DerivedFrom(sr, model, amount) ==
    ChannelProcessor_configureForModel([ChannelProcessor_init EXCEPT !.sr = sr], model, amount)

\* C21 (intensity refresh): from the loop of a block that is not bypassed until
\* the next block begins, both channel processors hold the shaper weights and
\* asymmetry, the shelves and the high-pass and low-pass corners derived from that
\* block's model and mix, whatever the blocks before left.
C21_IntensityRefresh ==
    (pc \in {"loop", "return", "idle"} /\ ~Bypassed(RT_wetMix)) =>
        \A c \in 1..2 :
           Intensity(ChannelOf(engine, c))
              = Intensity(DerivedFrom(ChannelOf(engine, c).sr, rtModel, RT_wetMix))

\* A block has run under the model the engine was already configured for, with
\* another mix: the intensity of both processors is no longer what it was when
\* the block began.
C21_Witness ==
    /\ pc = "return"
    /\ ~Bypassed(RT_wetMix)
    /\ engine0.left.currentModel = rtModel
    /\ engine0.right.currentModel = rtModel
    /\ Intensity(engine.left) # Intensity(engine0.left)
    /\ Intensity(engine.right) # Intensity(engine0.right)

\* The drives of C22 for profile p, amount and envelope value env:
\* drive * lowSatMult * dynamicGain, drive * midSatMult and
\* drive * highSatMult * (1 + 0.3 * compression).
StaticDrive(p, amount) == lerpf(p.baseDrive, p.maxDrive, amount)
GainAt(p, amount, env) == One - Mul(Mul(p.compression, amount), clampf(Mul(env, 2 * One), 0, One))
DrivesAt(p, amount, env) ==
    [low  |-> Mul(Mul(StaticDrive(p, amount), p.lowSatMult), GainAt(p, amount, env)),
     mid  |-> Mul(StaticDrive(p, amount), p.midSatMult),
     high |-> Mul(Mul(StaticDrive(p, amount), p.highSatMult),
                  One + Mul(Mul(p.compression, amount), Lit(3, 10)))]

\* The stages of process up to the band split, on the processor cp.
SplitOf(cp, x) == Stage_crossover(Stage_envelope(Stage_inputHP(Stage_dcIn(Stage_start(cp, x)))))

\* The sum of the three bands of st, each shaped with the drive given in d.
ShapedWith(st, d) ==
      HarmonicShaper_process([st.cp.lowShaper EXCEPT !.drive = d.low], st.low)
    + HarmonicShaper_process([st.cp.midShaper EXCEPT !.drive = d.mid], st.mid)
    + HarmonicShaper_process([st.cp.highShaper EXCEPT !.drive = d.high], st.high)

\* The sample returned when the stages after the shapers run on the sum v.
AfterShapers(st, v) ==
    Stage_limit(Stage_dcOut(Stage_outputLP(Stage_highShelf(Stage_lowShelf([st EXCEPT !.x = v]))))).y

\* C22 (per-sample drive): a call process(x, model, amount) with model in 0..9
\* leaves the three shapers with the drives computed from the profile, the amount
\* and the envelope value of that sample, and the sample returned is the one
\* obtained by shaping the bands with those drives.
C22_PerSampleDrive ==
    [][(calls' = calls + 1 /\ call'.op = "process" /\ call'.model \in 0..(MODEL_COUNT - 1)) =>
          /\ chan'.lowShaper.drive
                = DrivesAt(ModelParamsAt(call'.model), call'.amount, chan'.envelope.env).low
          /\ chan'.midShaper.drive
                = DrivesAt(ModelParamsAt(call'.model), call'.amount, chan'.envelope.env).mid
          /\ chan'.highShaper.drive
                = DrivesAt(ModelParamsAt(call'.model), call'.amount, chan'.envelope.env).high
          /\ call'.y
                = AfterShapers(
                     SplitOf(ChannelProcessor_resync(chan, call'.model, call'.amount), call'.x),
                     ShapedWith(
                        SplitOf(ChannelProcessor_resync(chan, call'.model, call'.amount), call'.x),
                        DrivesAt(ModelParamsAt(call'.model), call'.amount, chan'.envelope.env)))]_vars

\* A sample processed under model 2 with the follower above 0: the low and high
\* shapers hold drives other than the ones configureForModel would leave.
C22_Witness ==
    /\ call.op = "process"
    /\ call.model = 2
    /\ chan.envelope.env > 0
    /\ chan.lowShaper.drive
          < Mul(StaticDrive(ModelParamsAt(2), call.amount), ModelParamsAt(2).lowSatMult)
    /\ chan.highShaper.drive
          > Mul(StaticDrive(ModelParamsAt(2), call.amount), ModelParamsAt(2).highSatMult)
    /\ call.y # 0

\* The value handed to crossover.process at line 577 by process(x, ...) on cp.
CrossoverInput(cp, x) == Stage_envelope(Stage_inputHP(Stage_dcIn(Stage_start(cp, x)))).x

\* low + mid + high = x for the bands r that ThreeBandCrossover::process returns
\* on the crossover c, low being lp2(lp1(x)) and high hp2(hp1(x)).
BandsSumTo(c, x, r) ==
    /\ r.low + r.mid + r.high = x
    /\ r.low = Biquad_process(c.lp2, Biquad_process(c.lp1, x).y).y
    /\ r.high = Biquad_process(c.hp2, Biquad_process(c.hp1, x).y).y

\* The bands r returned for the input xin on the crossover c sum to xin, and the
\* crossover is left as c2.
BandsReturned(c, xin, r, c2) == BandsSumTo(c, xin, r) /\ c2 = r.s
BandsFrom(c, xin, c2) == BandsReturned(c, xin, ThreeBandCrossover_process(c, xin), c2)

\* The same for the crossover call of process(x, ...) on the processor cp.
BandsOfCall(cp, x, c2) == BandsFrom(cp.crossover, CrossoverInput(cp, x), c2)

SectionOutput(g, x, z1, z2) ==
    Mul(g.b0, x) + Mul(g.b1, z1) + Mul(g.b2, z2) - Mul(g.a1, z1) - Mul(g.a2, z2)

\* The section that was f is g after one process(x): z1 holds the output just
\* computed from f's two history values, z2 what z1 held.
SectionStepped(f, g, x) ==
    /\ g.z1 = SectionOutput(g, x, f.z1, f.z2)
    /\ g.z2 = f.z1

\* The state of a section: five coefficients and two history values.
SectionFields == {"b0", "b1", "b2", "a1", "a2", "z1", "z2"}

\* The steps of the five sections of cp2 whose input is known from the call: xin
\* is the crossover's input, the second section of each cascade and the high
\* shelf take the output the section before them just stored in z1.
SectionsStepped(cp, cp2, xin) ==
    /\ SectionStepped(cp.crossover.lp1, cp2.crossover.lp1, xin)
    /\ SectionStepped(cp.crossover.hp1, cp2.crossover.hp1, xin)
    /\ SectionStepped(cp.crossover.lp2, cp2.crossover.lp2, cp2.crossover.lp1.z1)
    /\ SectionStepped(cp.crossover.hp2, cp2.crossover.hp2, cp2.crossover.hp1.z1)
    /\ SectionStepped(cp.highShelf, cp2.highShelf, cp2.lowShelf.z1)
    /\ cp2.lowShelf.z2 = cp.lowShelf.z1

\* C24: a biquad section holds five coefficients and two history values and
\* nothing else; each process(x) stores y = b0*x + b1*z1 + b2*z2 - a1*z1 - a2*z2
\* in z1 after moving the old z1 to z2, so z1 and z2 are the two most recent
\* outputs; after prepare (reset) both are 0.
C24_BiquadHistory ==
    [][/\ \A f \in {chan.crossover.lp1, chan.crossover.lp2, chan.crossover.hp1,
                    chan.crossover.hp2, chan.lowShelf, chan.highShelf} :
             DOMAIN f = SectionFields
       /\ (calls' = calls + 1 /\ call'.op = "process" /\ call'.model \in 0..(MODEL_COUNT - 1)) =>
             SectionsStepped(chan, chan',
                 CrossoverInput(ChannelProcessor_resync(chan, call'.model, call'.amount), call'.x))
       /\ (calls' = calls + 1 /\ call'.op = "prepare") =>
             \A f \in {chan'.crossover.lp1, chan'.crossover.lp2, chan'.crossover.hp1,
                       chan'.crossover.hp2, chan'.lowShelf, chan'.highShelf} :
                f.z1 = 0 /\ f.z2 = 0]_vars

\* Two samples have gone through the sections under model 2: both history values
\* of the first high-pass section and of the high shelf are non-zero and differ.
C24_Witness ==
    /\ call.op = "process"
    /\ call.model = 2
    /\ chan.crossover.hp1.z1 # 0
    /\ chan.crossover.hp1.z2 # 0
    /\ chan.crossover.hp1.z1 # chan.crossover.hp1.z2
    /\ chan.highShelf.z1 # 0
    /\ chan.highShelf.z2 # 0

\* C25 (no net DC shift): each shaper of the channel processor, with whatever
\* weights, drive and asymmetry it has been given, returns 0 for the input 0.
C25_Original ==
    \A sh \in {chan.lowShaper, chan.midShaper, chan.highShaper} : HarmonicShaper_process(sh, 0) = 0

\* C26 (bypass leaves the engine alone): a block whose mix clamps to a value
\* below 0.0001 leaves the engine, with both channel processors' currentModel,
\* coefficients, histories and envelope level, exactly as it was; a prepared
\* engine that was never configured is still unconfigured after it.
C26_BypassFrame ==
    [][(lastOp' = "block" /\ frames' # frames /\ LoadMix(paramMix) < MixThreshold) =>
          /\ engine' = engine
          /\ \A c \in 1..2 :
                /\ ChannelOf(engine', c).currentModel = ChannelOf(engine, c).currentModel
                /\ Coefs(ChannelOf(engine', c)) = Coefs(ChannelOf(engine, c))
                /\ Histories(ChannelOf(engine', c)) = Histories(ChannelOf(engine, c))]_vars

\* A prepared engine after bypassed blocks only: both processors unconfigured.
C26_Witness ==
    /\ lastOp = "block"
    /\ LoadMix(paramMix) < MixThreshold
    /\ paramMix > 0
    /\ prepares > 0
    /\ frames = MaxFrames
    /\ Len(inBuf[1]) = 1
    /\ engine.left.currentModel = -1
    /\ engine.right.currentModel = -1

\* Amounts and envelope levels at which the gain is examined for every model.
GainAmounts == {0, One \div 4, One \div 2, One}
GainLevels == {0, One \div 4, One \div 2, One, 3 * One}

\* The compression comp, the dynamic gain and the low-band drive low of a profile
\* with static low-band drive top: comp is in [0, 1), gain in [1 - comp, 1] and
\* low in (0, top].
GainBounds(comp, gain, low, top) ==
    /\ comp >= 0
    /\ comp < One
    /\ gain >= One - comp
    /\ gain <= One
    /\ low > 0
    /\ low <= top

\* The same for profile p, amount and envelope level env, with
\* compression = p.compression * amount.
GainInRange(p, amount, env) ==
    GainBounds(Mul(p.compression, amount), DynamicGain(p, amount, env), LowDrive(p, amount, env),
               Mul(lerpf(p.baseDrive, p.maxDrive, amount), p.lowSatMult))

GainInRangeAt(p, env) == \A a \in GainAmounts \cup ChanAmounts : GainInRange(p, a, env)

\* C27: for every model in 0..9, every amount examined and the envelope levels
\* examined, the follower's level in every state reached included, the dynamic
\* gain is in [1 - compression, 1] and the low-band drive in (0, drive * lowSatMult];
\* so is the low shaper's drive after every process call.
C27_DynamicGainRange ==
    /\ \A m \in 0..(MODEL_COUNT - 1) :
          \A env \in GainLevels \cup {chan.envelope.env, envPeak} :
             GainInRangeAt(ModelParamsAt(m), env)
    /\ (call.op = "process" /\ call.model \in 0..(MODEL_COUNT - 1)) =>
          /\ chan.lowShaper.drive = LowDrive(ModelParamsAt(call.model), call.amount, chan.envelope.env)
          /\ chan.lowShaper.drive > 0

\* A sample processed under model 2 with the follower between 0 and 1/2: the gain
\* is strictly inside its range and the low drive below the static one.
C27_Witness ==
    /\ call.op = "process"
    /\ call.model = 2
    /\ chan.envelope.env > 0
    /\ 2 * chan.envelope.env < One
    /\ DynamicGain(ModelParamsAt(2), call.amount, chan.envelope.env) < One
    /\ DynamicGain(ModelParamsAt(2), call.amount, chan.envelope.env)
          > One - Compression(ModelParamsAt(2), call.amount)


(***************************************************************************)
(* SpecEditor: the message thread.  The host writes the model parameter,   *)
(* a button of the grid is clicked, the editor's timer fires, a preset is  *)
(* saved or loaded, the preset file is replaced from outside.              *)
(***************************************************************************)

\* Message-thread calls in a run.
MaxUiCalls == 4

\* Raw values the host stores in "model": below and above the range, a value
\* between two indices (2.5) and an index.
EditorModelValues == {-One, 2 * One + One \div 2, 7 * One, 10 * One}

\* Preset names handed to savePresetToFile, the empty name included.
PresetNames == {"", "Lead"}

\* Files handed to the preset functions.
PresetFiles == {NoFile, PresetFile}

\* What the preset file may hold when it was not written by savePresetToFile.
HeldFiles ==
    {Missing, Garbage, Treeless,
     VillainTree("Bass", NoTree), VillainTree("", NoTree),
     VillainTree("Bass", StateOf(4 * One, One \div 2)), VillainTree("", StateOf(4 * One, One \div 2)),
     BareTree(StateOf(9 * One, One))}

\* What a message-thread call leaves alone outside the parameters and the editor.
audioVars == <<numChannels, engine, inBuf, outBuf, lastOp, frames, prepares, twinVars, chanVars, rtVars>>

\* The call op counted and recorded.
UiCalled(op, ret, errorOut, loaded, presetName, written) ==
    /\ uiCalls < MaxUiCalls
    /\ uiCalls' = uiCalls + 1
    /\ uiCall' = [op |-> op, ret |-> ret, errorOut |-> errorOut, loadedPresetName |-> loaded,
                  presetName |-> presetName, written |-> written]

\* The host stores a value in the "model" parameter.
HostSetsModel(v) ==
    /\ UiCalled("write", TRUE, "", "", "", FALSE)
    /\ paramModel' = v
    /\ UNCHANGED <<paramMix, audioVars, currentModel, selected, toggled, currentPresetName, disk>>

\* Button i of the grid is clicked: the button toggles on (lines 113-114) and
\* its onClick calls setModel (i) (line 129).
ButtonClick(i) ==
    /\ UiCalled("click", TRUE, "", "", "", FALSE)
    /\ toggled' = Button_setToggleState(toggled, i, TRUE)
    /\ paramModel' = ModelGrid_setModel(i)
    /\ UNCHANGED <<paramMix, audioVars, currentModel, selected, currentPresetName, disk>>

\* VillainAudioProcessorEditor::timerCallback, lines 446-459.
TimerCallback ==
    /\ UiCalled("timer", TRUE, "", "", "", FALSE)
    /\ currentModel' = Editor_model(paramModel)
    /\ \E g \in {ModelGrid_syncFromParameter([selected |-> selected, toggled |-> toggled], paramModel)} :
          /\ selected' = g.selected
          /\ toggled' = g.toggled
    /\ UNCHANGED <<paramModel, paramMix, audioVars, currentPresetName, disk>>

\* savePresetToFile (file, presetName, errorOut) is called.
SavePreset(file, presetName, xmlOk, writeOk) ==
    \E r \in {savePresetToFile(currentPresetName, StateOf(paramModel, paramMix), file, presetName,
                               xmlOk, writeOk, disk)} :
       /\ UiCalled("save", r.ret, r.errorOut, "", presetName, file # NoFile /\ xmlOk /\ writeOk)
       /\ currentPresetName' = r.name
       /\ disk' = r.disk
       /\ UNCHANGED <<paramModel, paramMix, audioVars, currentModel, selected, toggled>>

\* loadPresetFromFile (file, loadedPresetName, errorOut) is called;
\* apvts.replaceState stores the tree's parameter values.
LoadPreset(file) ==
    \E r \in {loadPresetFromFile(currentPresetName, StateOf(paramModel, paramMix), file, disk)} :
       /\ UiCalled("load", r.ret, r.errorOut, r.loadedPresetName, "", FALSE)
       /\ currentPresetName' = r.name
       /\ paramModel' = r.state.model
       /\ paramMix' = r.state.mix
       /\ UNCHANGED <<audioVars, currentModel, selected, toggled, disk>>

\* The preset file is replaced, or removed, from outside the plugin.
PutFile(held) ==
    /\ UiCalled("put", TRUE, "", "", "", FALSE)
    /\ disk' = held
    /\ UNCHANGED <<paramModel, paramMix, audioVars, currentModel, selected, toggled, currentPresetName>>

NextEditor ==
    \/ \E v \in EditorModelValues : HostSetsModel(v)
    \/ \E i \in 0..(kNumModels - 1) : ButtonClick(i)
    \/ TimerCallback
    \/ \E file \in PresetFiles, presetName \in PresetNames, xmlOk \in BOOLEAN, writeOk \in BOOLEAN :
          SavePreset(file, presetName, xmlOk, writeOk)
    \/ \E file \in PresetFiles : LoadPreset(file)
    \/ \E held \in HeldFiles : PutFile(held)

SpecEditor == InitSolo /\ [][NextEditor]_vars

\* A step that is a call of loadPresetFromFile, of savePresetToFile.
LoadStep == uiCalls' = uiCalls + 1 /\ uiCall'.op = "load"
SaveStep == uiCalls' = uiCalls + 1 /\ uiCall'.op = "save"

\* The parameter state and the current preset name are left as they were.
PresetStateKept ==
    /\ paramModel' = paramModel
    /\ paramMix' = paramMix
    /\ currentPresetName' = currentPresetName

\* C28: every call of loadPresetFromFile that returns false leaves the parameter
\* state and the current preset name as they were and sets errorOut; every call
\* that returns true leaves errorOut empty and makes the current preset name
\* loadedPresetName.
C28_Original ==
    [][LoadStep =>
          /\ (~uiCall'.ret) => (PresetStateKept /\ uiCall'.errorOut # "")
          /\ uiCall'.ret => (uiCall'.errorOut = "" /\ currentPresetName' = uiCall'.loadedPresetName)]_vars

\* Whether savePresetToFile returned true exactly when it wrote the file, with
\* errorOut empty and the file holding the state under presetName then, and
\* with errorOut set and nothing changed otherwise.
SaveReported ==
    /\ uiCall'.ret = uiCall'.written
    /\ uiCall'.ret => /\ uiCall'.errorOut = ""
                      /\ disk' = makeStateForSave(StateOf(paramModel, paramMix), uiCall'.presetName)
                      /\ paramModel' = paramModel
                      /\ paramMix' = paramMix
    /\ (~uiCall'.ret) => /\ uiCall'.errorOut # ""
                         /\ PresetStateKept
                         /\ disk' = disk

\* C29 as stated: after every call of savePresetToFile that returns true the
\* current preset name is presetName.
C29_Original ==
    [][SaveStep => (SaveReported /\ (uiCall'.ret => currentPresetName' = uiCall'.presetName))]_vars

\* C29: savePresetToFile returns true exactly when the file was written, with
\* errorOut empty and the current preset name presetName, or "Default" when
\* presetName is empty; every failure returns false with errorOut set and
\* leaves the current preset name and the parameter state as they were.
C29_SaveOutcome ==
    [][SaveStep =>
          /\ SaveReported
          /\ uiCall'.ret =>
                currentPresetName' = (IF uiCall'.presetName = "" THEN "Default" ELSE uiCall'.presetName)]_vars

\* A preset saved under the empty name over the name "Lead": the file is written
\* and the current preset name is "Default".
C29_Witness ==
    /\ uiCall.op = "save"
    /\ uiCall.ret
    /\ uiCall.written
    /\ uiCall.presetName = ""
    /\ currentPresetName = "Default"
    /\ disk = makeStateForSave(StateOf(paramModel, paramMix), "")
    /\ uiCalls = 2

=============================================================================
